---- MODULE Spec2Model ----
(***************************************************************************)
(* Synchro-S scheduling engine: conflict checker, weekly materializer and  *)
(* the mutation operations of lib/server/scheduleService.ts, over the      *)
(* relational store declared in supabase/migrations/0001 (classes,         *)
(* class_enrollments, class_overrides, class_status_logs,                  *)
(* class_type_compatibility).                                              *)
(*                                                                         *)
(* Representation.  A calendar date "YYYY-MM-DD" is a day number; day 1 is *)
(* a Monday, so ISO string order is integer order and addDays is +.  A     *)
(* clock value "HH:mm" is the pair <<h, m>>, a SQL time "HH:mm:ss" the     *)
(* triple <<h, m, s>>.  SQL NULL is NoDate / NoWeekday / NoId / NoTime /   *)
(* NoValue according to the column.                                        *)
(*                                                                         *)
(* State.  The five tables; last, the most recent completed call and its   *)
(* result; inflight, two requests advancing one awaited storage call at a  *)
(* time (used by SpecRace only, constant in the other specifications).     *)
(***************************************************************************)
EXTENDS Integers, Sequences, FiniteSets, TLC

VARIABLES classes, enrollments, overrides, statusLogs, compatibility, last, inflight

vars == <<classes, enrollments, overrides, statusLogs, compatibility, last, inflight>>

store == <<classes, enrollments, overrides, statusLogs>>

(***************************************************************************)
(* Bounds of the model.                                                    *)
(***************************************************************************)
MaxClasses == 2
MaxLogs == 3
MaxOverrides == 2

(***************************************************************************)
(* NULL markers and program constants.                                     *)
(***************************************************************************)
NoDate == 0
NoWeekday == 0
NoId == 0
NoTime == <<>>
NoValue == "null"
NoReason == <<>>
MinMoveMinutes == 30

InstructorIds == {"i1", "i2"}
SubjectCodes == {"MATH"}
Actor == "u1"

WeekStarts == {1, 8}
ClassIds == 1..MaxClasses

(***************************************************************************)
(* Seed data of the schema: class types and the compatibility matrix.      *)
(***************************************************************************)
ClassTypeCodes == {"ONE_TO_ONE", "TWO_TO_ONE", "REGULAR_MULTI", "SPECIAL"}

ClassTypes ==
  [c \in ClassTypeCodes |->
     [code |-> c,
      max_students |-> CASE c = "ONE_TO_ONE" -> 1
                         [] c = "TWO_TO_ONE" -> 2
                         [] c = "REGULAR_MULTI" -> 8
                         [] OTHER -> 20]]

SeedCompatibility ==
  {[class_type_a |-> a, class_type_b |-> b,
    is_compatible |-> (a = b /\ a \in {"REGULAR_MULTI", "SPECIAL"}),
    reason |-> <<"seed", a, b>>] : a \in ClassTypeCodes, b \in ClassTypeCodes}

(***************************************************************************)
(* lib/time.ts                                                             *)
(***************************************************************************)
timeToMinutes(time) == time[1] * 60 + time[2]

\* The overlap test over closed ranges.
rangesOverlapClosed(startA, endA, startB, endB) ==
  timeToMinutes(startA) <= timeToMinutes(endB) /\ timeToMinutes(endA) >= timeToMinutes(startB)

rangesOverlap(startA, endA, startB, endB) ==
  timeToMinutes(startA) < timeToMinutes(endB) /\ timeToMinutes(endA) > timeToMinutes(startB)

addDays(dateISO, days) == dateISO + days

weekRange(weekStartISO) == [weekStart |-> weekStartISO, weekEnd |-> addDays(weekStartISO, 6)]

\* The weekday counted from Sunday = 1.
dateToWeekdayFromSunday(dateISO) == (dateISO % 7) + 1

dateToWeekday(dateISO) ==
  LET jsDay == dateISO % 7
  IN  IF jsDay = 0 THEN 7 ELSE jsDay

toSqlTime(value) == <<value[1], value[2], 0>>

fromSqlTime(value) == IF value = NoTime THEN <<0, 0>> ELSE <<value[1], value[2]>>

addMinutes(time, minutesToAdd) ==
  LET total == time[1] * 60 + time[2] + minutesToAdd
  IN  <<total \div 60, total % 60>>

(***************************************************************************)
(* lib/validators.ts                                                       *)
(***************************************************************************)
isWeekday(value) == value \in 1..7

\* The validator without its time-order test.
validateSchedulePayloadNoOrder(input) ==
  (IF input.instructorId = NoValue THEN {"instructorId is required"} ELSE {})
  \cup (IF Len(input.studentIds) = 0 THEN {"studentIds must contain at least one student"} ELSE {})
  \cup (IF input.subjectCode = NoValue THEN {"subjectCode is required"} ELSE {})
  \cup (IF input.classTypeCode = NoValue THEN {"classTypeCode is required"} ELSE {})
  \cup (IF input.note = NoValue THEN {"note is required"} ELSE {})
  \cup (IF input.startTime = NoTime \/ input.endTime = NoTime
        THEN {"startTime and endTime are required"} ELSE {})
  \cup (IF input.scheduleMode = "recurring" /\ ~isWeekday(input.weekday)
        THEN {"weekday must be 1..7 for recurring mode"} ELSE {})
  \cup (IF input.scheduleMode = "one_off" /\ input.classDate = NoDate
        THEN {"classDate (YYYY-MM-DD) is required for one_off mode"} ELSE {})

validateSchedulePayload(input) ==
  LET e1 == IF input.instructorId = NoValue THEN {"instructorId is required"} ELSE {}
      e2 == IF Len(input.studentIds) = 0
            THEN {"studentIds must contain at least one student"} ELSE {}
      e3 == IF input.subjectCode = NoValue THEN {"subjectCode is required"} ELSE {}
      e4 == IF input.classTypeCode = NoValue THEN {"classTypeCode is required"} ELSE {}
      e5 == IF input.note = NoValue THEN {"note is required"} ELSE {}
      e6 == IF input.startTime = NoTime \/ input.endTime = NoTime
            THEN {"startTime and endTime are required"}
            ELSE IF timeToMinutes(input.startTime) >= timeToMinutes(input.endTime)
                 THEN {"endTime must be later than startTime"} ELSE {}
      e7 == IF input.scheduleMode = "recurring" /\ ~isWeekday(input.weekday)
            THEN {"weekday must be 1..7 for recurring mode"} ELSE {}
      e8 == IF input.scheduleMode = "one_off" /\ input.classDate = NoDate
            THEN {"classDate (YYYY-MM-DD) is required for one_off mode"} ELSE {}
  IN  e1 \cup e2 \cup e3 \cup e4 \cup e5 \cup e6 \cup e7 \cup e8

(***************************************************************************)
(* Helpers for query results: rows of a table in primary-key order.        *)
(***************************************************************************)
RECURSIVE RowsById(_)
RowsById(rows) ==
  IF rows = {} THEN <<>>
  ELSE LET r == CHOOSE x \in rows : \A y \in rows : x.id <= y.id
       IN  <<r>> \o RowsById(rows \ {r})

\* A select without ORDER BY (531-543 have none) returns its rows in an order the
\* storage chooses: any arrangement of the primary keys.
RowOrders ==
  {rowOrder \in [ClassIds -> ClassIds] : \A i, j \in ClassIds : rowOrder[i] = rowOrder[j] => i = j}

RECURSIVE RowsInOrder(_, _)
RowsInOrder(rows, rowOrder) ==
  IF rowOrder = <<>> THEN <<>>
  ELSE (IF \E r \in rows : r.id = Head(rowOrder)
        THEN <<CHOOSE r \in rows : r.id = Head(rowOrder)>> ELSE <<>>)
       \o RowsInOrder(rows, Tail(rowOrder))

RECURSIVE Dedup(_)
Dedup(seq) ==
  IF seq = <<>> THEN <<>>
  ELSE LET front == Dedup(SubSeq(seq, 1, Len(seq) - 1))
           x == seq[Len(seq)]
       IN  IF \E i \in 1..Len(front) : front[i] = x THEN front ELSE Append(front, x)

Range(seq) == {seq[i] : i \in 1..Len(seq)}

(***************************************************************************)
(* The clock: new Date() of a request, and current_date of the database.   *)
(***************************************************************************)
Today == 1

(***************************************************************************)
(* findExistingOverlaps (scheduleService.ts 66-130).  The rows of the      *)
(* instructor that share the candidate's weekday (recurring) or date       *)
(* (one_off), in the order the queries are concatenated.                   *)
(***************************************************************************)
\* The filter that excludes no row.
NotExcludedNever(row, excludeClassId) == TRUE

\* 92, 127
NotExcluded(row, excludeClassId) ==
  IF excludeClassId # NoId THEN row.id # excludeClassId ELSE TRUE

\* The window test that ignores active_to.
ActiveOnFromOnly(row, referenceDate) == row.active_from <= referenceDate

\* 93
ActiveOn(row, referenceDate) ==
  row.active_from <= referenceDate /\ (row.active_to = NoDate \/ row.active_to >= referenceDate)

\* The time test that only sees a candidate starting inside the stored range.
TimeOverlapsStartInside(payload, row) ==
  /\ timeToMinutes(fromSqlTime(row.start_time)) <= timeToMinutes(payload.startTime)
  /\ timeToMinutes(payload.startTime) < timeToMinutes(fromSqlTime(row.end_time))

TimeOverlaps(payload, row) ==
  rangesOverlap(payload.startTime, payload.endTime,
                fromSqlTime(row.start_time), fromSqlTime(row.end_time))

findExistingOverlaps(payload, excludeClassId) ==
  IF payload.scheduleMode = "recurring"
  THEN LET referenceDate == IF payload.activeFrom # NoDate THEN payload.activeFrom ELSE Today
           rows == RowsById({r \in classes : /\ r.instructor_id = payload.instructorId
                                             /\ r.schedule_mode = "recurring"
                                             /\ r.weekday = payload.weekday})
       IN  SelectSeq(rows, LAMBDA row : /\ NotExcluded(row, excludeClassId)
                                        /\ ActiveOn(row, referenceDate)
                                        /\ TimeOverlaps(payload, row))
  ELSE LET targetDate == payload.classDate
           targetWeekday == dateToWeekday(targetDate)
           oneOffRes == RowsById({r \in classes : /\ r.instructor_id = payload.instructorId
                                                  /\ r.schedule_mode = "one_off"
                                                  /\ r.class_date = targetDate})
           recurringRes == RowsById({r \in classes : /\ r.instructor_id = payload.instructorId
                                                     /\ r.schedule_mode = "recurring"
                                                     /\ r.weekday = targetWeekday
                                                     /\ r.active_from <= targetDate
                                                     /\ (r.active_to = NoDate \/ r.active_to >= targetDate)})
           rows == oneOffRes \o recurringRes
       IN  SelectSeq(rows, LAMBDA row : /\ NotExcluded(row, excludeClassId)
                                        /\ TimeOverlaps(payload, row))

(***************************************************************************)
(* loadCompatibilityMap (132-167): the rules between the candidate's type  *)
(* and the existing types, in either direction, keyed by (a, b).           *)
(***************************************************************************)
\* The map loaded from the direct query alone.
loadCompatibilityMapDirectOnly(candidateType, existingTypes) ==
  IF existingTypes = {} THEN {}
  ELSE {r \in compatibility : r.class_type_a = candidateType
                              /\ r.class_type_b \in existingTypes}

\* 132-167
loadCompatibilityMap(candidateType, existingTypes) ==
  IF existingTypes = {} THEN {}
  ELSE LET directRes == {r \in compatibility : r.class_type_a = candidateType
                                               /\ r.class_type_b \in existingTypes}
           reverseRes == {r \in compatibility : r.class_type_b = candidateType
                                                /\ r.class_type_a \in existingTypes}
       IN  directRes \cup reverseRes

MapHas(compatibilityMap, a, b) ==
  \E r \in compatibilityMap : r.class_type_a = a /\ r.class_type_b = b

MapGet(compatibilityMap, a, b) ==
  CHOOSE r \in compatibilityMap : r.class_type_a = a /\ r.class_type_b = b

(***************************************************************************)
(* resolveCompatibility (169-201)                                          *)
(***************************************************************************)
RuleAnswer(rule) ==
  [isCompatible |-> rule.is_compatible,
   reason |-> IF rule.reason # NoReason THEN rule.reason
              ELSE <<"Incompatible class type overlap">>]

\* The lookup without its reversed-pair step.
resolveCompatibilityNoReverse(compatibilityMap, candidateType, existingType) ==
  IF MapHas(compatibilityMap, candidateType, existingType)
  THEN RuleAnswer(MapGet(compatibilityMap, candidateType, existingType))
  ELSE IF candidateType = existingType
  THEN [isCompatible |-> TRUE, reason |-> <<"same class type">>]
  ELSE [isCompatible |-> FALSE,
        reason |-> <<"No compatibility rule defined for", candidateType, existingType>>]

\* The lookup without its same-type default.
resolveCompatibilityNoSameType(compatibilityMap, candidateType, existingType) ==
  IF MapHas(compatibilityMap, candidateType, existingType)
  THEN RuleAnswer(MapGet(compatibilityMap, candidateType, existingType))
  ELSE IF MapHas(compatibilityMap, existingType, candidateType)
  THEN RuleAnswer(MapGet(compatibilityMap, existingType, candidateType))
  ELSE [isCompatible |-> FALSE,
        reason |-> <<"No compatibility rule defined for", candidateType, existingType>>]

\* 169-201
resolveCompatibility(compatibilityMap, candidateType, existingType) ==
  IF MapHas(compatibilityMap, candidateType, existingType)
  THEN RuleAnswer(MapGet(compatibilityMap, candidateType, existingType))
  ELSE IF MapHas(compatibilityMap, existingType, candidateType)
  THEN RuleAnswer(MapGet(compatibilityMap, existingType, candidateType))
  ELSE IF candidateType = existingType
  THEN [isCompatible |-> TRUE, reason |-> <<"same class type">>]
  ELSE [isCompatible |-> FALSE,
        reason |-> <<"No compatibility rule defined for", candidateType, existingType>>]

(***************************************************************************)
(* The loop shared by checkScheduleConflict (264-279) and                  *)
(* checkMoveConflictForWeek (232-246): one entry per incompatible overlap. *)
(***************************************************************************)
NoConflict == [hasConflict |-> FALSE, conflicts |-> <<>>]

RECURSIVE CollectConflicts(_, _, _, _)
CollectConflicts(compatibilityMap, candidateType, ids, types) ==
  IF ids = <<>> THEN <<>>
  ELSE LET check == resolveCompatibility(compatibilityMap, candidateType, Head(types))
           rest == CollectConflicts(compatibilityMap, candidateType, Tail(ids), Tail(types))
       IN  IF ~check.isCompatible
           THEN <<[classId |-> Head(ids), reason |-> check.reason]>> \o rest
           ELSE rest

ConflictResult(conflicts) == [hasConflict |-> Len(conflicts) > 0, conflicts |-> conflicts]

\* 260-279 and 228-246: no overlap, no conflict; otherwise load the rules and loop.
ResolveOverlaps(candidateType, ids, types) ==
  IF Len(ids) = 0 THEN NoConflict
  ELSE ConflictResult(CollectConflicts(loadCompatibilityMap(candidateType, Range(types)),
                                       candidateType, ids, types))

CheckOverlappingRows(candidateType, overlaps) ==
  ResolveOverlaps(candidateType,
                  [i \in 1..Len(overlaps) |-> overlaps[i].id],
                  [i \in 1..Len(overlaps) |-> overlaps[i].class_type_code])

CheckOverlappingEvents(candidateType, overlaps) ==
  ResolveOverlaps(candidateType,
                  [i \in 1..Len(overlaps) |-> overlaps[i].id],
                  [i \in 1..Len(overlaps) |-> overlaps[i].classTypeCode])

AnyOverlap(overlaps) ==
  ConflictResult([i \in 1..Len(overlaps) |-> [classId |-> overlaps[i].id, reason |-> <<"overlap">>]])

\* checkScheduleConflict that reports every overlap, whatever its class type.
checkScheduleConflictAnyOverlap(payload, excludeClassId) ==
  AnyOverlap(findExistingOverlaps(payload, excludeClassId))

(***************************************************************************)
(* checkScheduleConflict (249-280), for a payload that passed validation.  *)
(***************************************************************************)
checkScheduleConflict(payload, excludeClassId) ==
  CheckOverlappingRows(payload.classTypeCode, findExistingOverlaps(payload, excludeClassId))

(***************************************************************************)
(* fetchWeeklySchedule (513-677) and classToEvent (480-511).               *)
(***************************************************************************)
loadClassIdsForStudent(studentId) ==
  {e.class_id : e \in {x \in enrollments : x.student_id = studentId}}

\* The override key without the date.
buildOverrideKeyClassOnly(classId, date) == <<classId>>

\* 62-64: the key of overrideMap.
buildOverrideKey(classId, date) == <<classId, date>>

\* 599-602, 640, 654: overrideMap.get(buildOverrideKey(...)); a record of nulls when
\* the map has no entry.
OverrideFor(rows, classId, date) ==
  IF \E o \in rows : buildOverrideKey(o.class_id, o.override_date) = buildOverrideKey(classId, date)
  THEN CHOOSE o \in rows :
         buildOverrideKey(o.class_id, o.override_date) = buildOverrideKey(classId, date)
  ELSE [class_id |-> NoId, override_date |-> NoDate, action |-> NoValue,
        override_instructor_id |-> NoValue, override_start_time |-> NoTime,
        override_end_time |-> NoTime, override_status |-> NoValue]

EffectiveInstructor(row, override) ==
  IF override.override_instructor_id # NoValue THEN override.override_instructor_id
  ELSE row.instructor_id

\* The event built from the stored times, whatever the override carries.
classToEventStoredTimes(row, date, weekday, override) ==
  [id |-> row.id,
   scheduleMode |-> row.schedule_mode,
   instructorId |-> EffectiveInstructor(row, override),
   studentIds |-> {e.student_id : e \in {x \in enrollments : x.class_id = row.id}},
   subjectCode |-> row.subject_code,
   classTypeCode |-> row.class_type_code,
   weekday |-> weekday,
   classDate |-> date,
   startTime |-> fromSqlTime(row.start_time),
   endTime |-> fromSqlTime(row.end_time),
   progressStatus |-> IF override.override_status # NoValue
                      THEN override.override_status ELSE row.progress_status]

\* 480-511
classToEvent(row, date, weekday, override) ==
  [id |-> row.id,
   scheduleMode |-> row.schedule_mode,
   instructorId |-> EffectiveInstructor(row, override),
   studentIds |-> {e.student_id : e \in {x \in enrollments : x.class_id = row.id}},
   subjectCode |-> row.subject_code,
   classTypeCode |-> row.class_type_code,
   weekday |-> weekday,
   classDate |-> date,
   startTime |-> fromSqlTime(IF override.override_start_time # NoTime
                             THEN override.override_start_time ELSE row.start_time),
   endTime |-> fromSqlTime(IF override.override_end_time # NoTime
                           THEN override.override_end_time ELSE row.end_time),
   progressStatus |-> IF override.override_status # NoValue
                      THEN override.override_status ELSE row.progress_status]

\* events.sort (667-670): by classDate, then startTime; Array.prototype.sort is stable.
RECURSIVE InsertSorted(_, _)
InsertSorted(sorted, e) ==
  IF sorted = <<>> THEN <<e>>
  ELSE IF (IF e.classDate # Head(sorted).classDate
           THEN e.classDate < Head(sorted).classDate
           ELSE timeToMinutes(e.startTime) < timeToMinutes(Head(sorted).startTime))
  THEN <<e>> \o sorted
  ELSE <<Head(sorted)>> \o InsertSorted(Tail(sorted), e)

RECURSIVE SortEvents(_)
SortEvents(events) ==
  IF events = <<>> THEN <<>>
  ELSE InsertSorted(SortEvents(SubSeq(events, 1, Len(events) - 1)), events[Len(events)])

\* The active-window test without its activeTo half.
InActiveWindowFromOnly(row, classDate) == ~(classDate < row.active_from)

\* The active-window test of one recurring occurrence (637-638).
InActiveWindow(row, classDate) ==
  ~(classDate < row.active_from) /\ ~(row.active_to # NoDate /\ classDate > row.active_to)

\* The loop body that keeps a cancelled occurrence.
OccurrenceEventsKeepCancelled(row, classDate, weekday, override, params) ==
  IF row.schedule_mode = "recurring" /\ row.weekday = NoWeekday THEN <<>>
  ELSE IF row.schedule_mode = "recurring" /\ ~InActiveWindow(row, classDate) THEN <<>>
  ELSE IF row.schedule_mode # "recurring" /\ row.class_date = NoDate THEN <<>>
  ELSE IF /\ params.view = "instructor"
          /\ params.instructorId # NoValue
          /\ EffectiveInstructor(row, override) # params.instructorId
       THEN <<>>
  ELSE <<classToEvent(row, classDate, weekday, override)>>

\* The per-row body of the loop (632-665): the events one class row contributes.
OccurrenceEvents(row, classDate, weekday, override, params) ==
  IF row.schedule_mode = "recurring" /\ row.weekday = NoWeekday THEN <<>>
  ELSE IF row.schedule_mode = "recurring" /\ ~InActiveWindow(row, classDate) THEN <<>>
  ELSE IF row.schedule_mode # "recurring" /\ row.class_date = NoDate THEN <<>>
  ELSE IF override.action = "cancel" THEN <<>>
  ELSE IF /\ params.view = "instructor"
          /\ params.instructorId # NoValue
          /\ EffectiveInstructor(row, override) # params.instructorId
       THEN <<>>
  ELSE <<classToEvent(row, classDate, weekday, override)>>

\* The occurrence date counted from the day after weekStart.
OccurrenceDateOffByOne(row, weekStart) ==
  IF row.schedule_mode = "recurring" THEN addDays(weekStart, row.weekday) ELSE row.class_date

OccurrenceDate(row, weekStart) ==
  IF row.schedule_mode = "recurring" THEN addDays(weekStart, row.weekday - 1) ELSE row.class_date

OccurrenceWeekday(row) ==
  IF row.schedule_mode = "recurring" THEN row.weekday ELSE dateToWeekday(row.class_date)

RowEvents(row, weekStart, overrideRows, params) ==
  OccurrenceEvents(row, OccurrenceDate(row, weekStart), OccurrenceWeekday(row),
                   OverrideFor(overrideRows, row.id, OccurrenceDate(row, weekStart)), params)

RECURSIVE AllRowEvents(_, _, _, _)
AllRowEvents(rows, weekStart, overrideRows, params) ==
  IF rows = <<>> THEN <<>>
  ELSE RowEvents(Head(rows), weekStart, overrideRows, params)
         \o AllRowEvents(Tail(rows), weekStart, overrideRows, params)

\* The scope without the student's class ids.
InScopeInstructorOnly(r, params, studentClassIds) ==
  (params.view = "instructor" /\ params.instructorId # NoValue)
    => r.instructor_id = params.instructorId

\* 531-563: the recurring and one-off class rows of the week, in the caller's scope.
InScope(r, params, studentClassIds) ==
  /\ (params.view = "instructor" /\ params.instructorId # NoValue)
       => r.instructor_id = params.instructorId
  /\ params.view = "student" => r.id \in studentClassIds

WeekClassRows(params, weekStart, weekEnd, studentClassIds, rowOrder) ==
  RowsInOrder({r \in classes : /\ r.schedule_mode = "recurring"
                               /\ r.active_from <= weekEnd
                               /\ (r.active_to = NoDate \/ r.active_to >= weekStart)
                               /\ InScope(r, params, studentClassIds)}, rowOrder)
  \o
  RowsInOrder({r \in classes : /\ r.schedule_mode = "one_off"
                               /\ r.class_date >= weekStart
                               /\ r.class_date <= weekEnd
                               /\ InScope(r, params, studentClassIds)}, rowOrder)

\* 576-590: the overrides of those classes dated inside the week.
WeekOverrideRows(classRows, weekStart, weekEnd) ==
  {o \in overrides : /\ o.class_id \in {classRows[i].id : i \in 1..Len(classRows)}
                     /\ o.override_date >= weekStart
                     /\ o.override_date <= weekEnd}

WeekEvents(params, weekStart, weekEnd, classRows) ==
  SortEvents(AllRowEvents(classRows, weekStart,
                          WeekOverrideRows(classRows, weekStart, weekEnd), params))

WeekResponse(params, weekStart, weekEnd, studentClassIds, rowOrder) ==
  IF params.view = "student" /\ params.studentId = NoValue
  THEN [thrown |-> TRUE, weekStart |-> weekStart, weekEnd |-> weekEnd, events |-> <<>>]
  ELSE IF params.view = "student" /\ studentClassIds = {}
  THEN [thrown |-> FALSE, weekStart |-> weekStart, weekEnd |-> weekEnd, events |-> <<>>]
  ELSE [thrown |-> FALSE, weekStart |-> weekStart, weekEnd |-> weekEnd,
        events |-> WeekEvents(params, weekStart, weekEnd,
                              WeekClassRows(params, weekStart, weekEnd, studentClassIds,
                                            rowOrder))]

fetchWeeklySchedule(params, rowOrder) ==
  WeekResponse(params, weekRange(params.weekStart).weekStart, weekRange(params.weekStart).weekEnd,
               IF params.view = "student" THEN loadClassIdsForStudent(params.studentId) ELSE {},
               rowOrder)

(***************************************************************************)
(* checkMoveConflictForWeek (203-247): the same check over the events of   *)
(* the instructor's target week.                                           *)
(***************************************************************************)
checkMoveConflictForWeek(params, rowOrder) ==
  LET weekly == fetchWeeklySchedule([weekStart |-> params.weekStart, view |-> "instructor",
                                     instructorId |-> params.instructorId,
                                     studentId |-> NoValue], rowOrder)
  IN  CheckOverlappingEvents(
        params.classTypeCode,
        SelectSeq(weekly.events,
                  LAMBDA event : /\ event.id # params.classId
                                 /\ event.weekday = params.weekday
                                 /\ rangesOverlap(params.startTime, params.endTime,
                                                  event.startTime, event.endTime)))

(***************************************************************************)
(* The store: insert / update / delete on the tables, with the schema's    *)
(* trigger (a status log row on every class insert) and its cascades       *)
(* (deleting a class deletes its enrollments, overrides and log rows).     *)
(***************************************************************************)
Db == [classes |-> classes, enrollments |-> enrollments,
       overrides |-> overrides, statusLogs |-> statusLogs]

FreeClassIds == ClassIds \ {r.id : r \in classes}

NewClassId(db) == CHOOSE i \in ClassIds \ {r.id : r \in db.classes} :
                    \A j \in ClassIds \ {r.id : r \in db.classes} : i <= j

LogEntry(classId, status, changedBy, reason) ==
  [class_id |-> classId, status |-> status, changed_by |-> changedBy, reason |-> reason]

\* The column types and checks of classes without the schedule_mode check.
ClassRowAcceptedTimesOnly(row) ==
  /\ timeToMinutes(fromSqlTime(row.start_time)) <= 24 * 60
  /\ timeToMinutes(fromSqlTime(row.end_time)) <= 24 * 60
  /\ timeToMinutes(fromSqlTime(row.end_time)) > timeToMinutes(fromSqlTime(row.start_time))

\* What an insert or update of classes must satisfy (schema, classes): time columns
\* hold 00:00:00..24:00:00, weekday is null or 1..7, end_time > start_time, and
\* schedule_mode fixes which of weekday and class_date is null.
ClassRowAccepted(row) ==
  /\ timeToMinutes(fromSqlTime(row.start_time)) <= 24 * 60
  /\ timeToMinutes(fromSqlTime(row.end_time)) <= 24 * 60
  /\ timeToMinutes(fromSqlTime(row.end_time)) > timeToMinutes(fromSqlTime(row.start_time))
  /\ row.weekday = NoWeekday \/ row.weekday \in 1..7
  /\ \/ (row.schedule_mode = "recurring" /\ row.weekday # NoWeekday /\ row.class_date = NoDate)
     \/ (row.schedule_mode = "one_off" /\ row.class_date # NoDate /\ row.weekday = NoWeekday)

InsertClass(db, row) ==
  [db EXCEPT !.classes = @ \cup {row},
             !.statusLogs = Append(@, LogEntry(row.id, row.progress_status, row.created_by, <<"created">>))]

DeleteClass(db, classId) ==
  [db EXCEPT !.classes = {r \in @ : r.id # classId},
             !.enrollments = {e \in @ : e.class_id # classId},
             !.overrides = {o \in @ : o.class_id # classId},
             !.statusLogs = SelectSeq(@, LAMBDA l : l.class_id # classId)]

\* class_enrollments.id (schema: primary key with a generated default): a value no
\* row of the table has.
NewEnrollmentId(db, classId, studentId) ==
  <<classId, studentId,
    Cardinality({e \in db.enrollments : e.class_id = classId /\ e.student_id = studentId})>>

InsertEnrollments(db, classId, studentIds) ==
  [db EXCEPT !.enrollments = @ \cup {[id |-> NewEnrollmentId(db, classId, studentIds[i]),
                                      class_id |-> classId, student_id |-> studentIds[i]] :
                                       i \in 1..Len(studentIds)}]

UpdateClass(db, classId, updated) ==
  [db EXCEPT !.classes = {IF r.id = classId THEN updated ELSE r : r \in @}]

InsertStatusLog(db, entry) == [db EXCEPT !.statusLogs = Append(@, entry)]

(***************************************************************************)
(* What a call leaves behind: the store it wrote and what it returned.     *)
(***************************************************************************)
Thrown(db, error) ==
  [db |-> db, outcome |-> "thrown", error |-> error, classId |-> NoId,
   conflict |-> NoConflict, status |-> NoValue, moved |-> FALSE]

Returned(db, classId, conflict, status, moved) ==
  [db |-> db, outcome |-> "ok", error |-> NoValue, classId |-> classId,
   conflict |-> conflict, status |-> status, moved |-> moved]

(***************************************************************************)
(* createScheduleWithEnrollments (309-369).  fault names the storage call  *)
(* that fails in this run, if any.                                         *)
(***************************************************************************)
\* The capacity test of create, off by one.
CapacityExceededOffByOne(dedupedStudentIds, classType) ==
  Len(dedupedStudentIds) > classType.max_students + 1

CapacityExceeded(dedupedStudentIds, classType) ==
  Len(dedupedStudentIds) > classType.max_students

\* Create that inserts the class before it returns the conflict.
CreateConflictReturnAfterInsert(db, payload, actorUserId, conflict) ==
  [db |-> [db EXCEPT !.classes = IF ClassIds \subseteq {r.id : r \in @} THEN @ ELSE
                                 @ \cup {[id |-> NewClassId(db),
                                          schedule_mode |-> payload.scheduleMode,
                                          instructor_id |-> payload.instructorId,
                                          subject_code |-> payload.subjectCode,
                                          class_type_code |-> payload.classTypeCode,
                                          weekday |-> payload.weekday,
                                          class_date |-> payload.classDate,
                                          start_time |-> toSqlTime(payload.startTime),
                                          end_time |-> toSqlTime(payload.endTime),
                                          active_from |-> payload.activeFrom,
                                          active_to |-> NoDate,
                                          progress_status |-> "planned",
                                          created_by |-> actorUserId]}],
   outcome |-> "ok", error |-> NoValue, classId |-> NoId, conflict |-> conflict,
   status |-> NoValue, moved |-> FALSE]

\* 326-328: a conflict is returned, nothing is written.
CreateConflictReturn(db, payload, actorUserId, conflict) ==
  Returned(db, NoId, conflict, NoValue, FALSE)

ClassInsertPayload(db, payload, actorUserId) ==
  [id |-> NewClassId(db),
   schedule_mode |-> payload.scheduleMode,
   instructor_id |-> payload.instructorId,
   subject_code |-> payload.subjectCode,
   class_type_code |-> payload.classTypeCode,
   weekday |-> IF payload.scheduleMode = "recurring" THEN payload.weekday ELSE NoWeekday,
   class_date |-> IF payload.scheduleMode = "one_off" THEN payload.classDate ELSE NoDate,
   start_time |-> toSqlTime(payload.startTime),
   end_time |-> toSqlTime(payload.endTime),
   active_from |-> IF payload.activeFrom # NoDate THEN payload.activeFrom ELSE Today,
   active_to |-> NoDate,
   progress_status |-> "planned",
   created_by |-> actorUserId]

\* The failure path without the compensating delete.
EnrollmentFailureNoDelete(db, classId) ==
  [db |-> db, outcome |-> "thrown", error |-> "enrollmentError", classId |-> NoId,
   conflict |-> NoConflict, status |-> NoValue, moved |-> FALSE]

\* 360-363: the enrollment insert failed; the inserted class is deleted, then the error is thrown.
EnrollmentFailure(db, classId) ==
  Thrown(DeleteClass(db, classId), "enrollmentError")

\* The checks that always pass.
ChecksPassAlways(checked) == TRUE

\* 315-328: the payload passes validation, the capacity test and the conflict check.
ChecksPass(checked) ==
  /\ validateSchedulePayload(checked) = {}
  /\ ~CapacityExceeded(checked.studentIds, ClassTypes[checked.classTypeCode])
  /\ ~checkScheduleConflict(checked, NoId).hasConflict

CreateReachesInsert(payload) ==
  ChecksPass([payload EXCEPT !.studentIds = Dedup(payload.studentIds)])

\* 343-368: the two inserts, after the checks passed.
CreateInserts(row, dedupedStudentIds, conflict, fault) ==
  IF fault = "classes.insert" \/ ~ClassRowAccepted(row) THEN Thrown(Db, "classError")
  ELSE IF fault = "class_enrollments.insert" THEN EnrollmentFailure(InsertClass(Db, row), row.id)
  ELSE Returned(InsertEnrollments(InsertClass(Db, row), row.id, dedupedStudentIds),
                row.id, conflict, NoValue, FALSE)

\* 315-328: validation, capacity and conflict check of the deduplicated payload.
CreateChecked(payload, actorUserId, fault, dedupedStudentIds, conflict) ==
  IF validateSchedulePayload([payload EXCEPT !.studentIds = dedupedStudentIds]) # {}
  THEN Thrown(Db, "validation")
  ELSE IF CapacityExceeded(dedupedStudentIds, ClassTypes[payload.classTypeCode])
  THEN Thrown(Db, "capacity")
  ELSE IF conflict.hasConflict THEN CreateConflictReturn(Db, payload, actorUserId, conflict)
  ELSE CreateInserts(ClassInsertPayload(Db, payload, actorUserId), dedupedStudentIds,
                     conflict, fault)

createScheduleWithEnrollments(payload, actorUserId, fault) ==
  CreateChecked(payload, actorUserId, fault, Dedup(payload.studentIds),
                checkScheduleConflict([payload EXCEPT !.studentIds = Dedup(payload.studentIds)],
                                      NoId))

(***************************************************************************)
(* importScheduleRow (371-470).  match is the row the exact-signature      *)
(* query (limit 1) returned, or NoRow.                                     *)
(***************************************************************************)
NoRow == [id |-> NoId]

\* The signature query comparing the row's HH:mm values with the stored SQL times.
ExactRowsRawTimes(payload) ==
  {r \in classes : /\ r.schedule_mode = payload.scheduleMode
                   /\ r.instructor_id = payload.instructorId
                   /\ r.subject_code = payload.subjectCode
                   /\ r.class_type_code = payload.classTypeCode
                   /\ r.start_time = payload.startTime
                   /\ r.end_time = payload.endTime
                   /\ IF payload.scheduleMode = "recurring"
                      THEN r.weekday = payload.weekday
                      ELSE r.class_date = payload.classDate}

ExactRows(payload) ==
  {r \in classes : /\ r.schedule_mode = payload.scheduleMode
                   /\ r.instructor_id = payload.instructorId
                   /\ r.subject_code = payload.subjectCode
                   /\ r.class_type_code = payload.classTypeCode
                   /\ r.start_time = toSqlTime(payload.startTime)
                   /\ r.end_time = toSqlTime(payload.endTime)
                   /\ IF payload.scheduleMode = "recurring"
                      THEN r.weekday = payload.weekday
                      ELSE r.class_date = payload.classDate}

\* The seat test of import with > for >=.
ClassIsFullOffByOne(enrollmentCount, classType) == enrollmentCount > classType.max_students

\* 445: the matched class has no free seat.
ClassIsFull(enrollmentCount, classType) == enrollmentCount >= classType.max_students

\* The window update that leaves active_to as it is.
WidenActiveWindowFromOnly(row, normalizeActiveFrom) ==
  [row EXCEPT !.active_from = IF @ = NoDate \/ @ > normalizeActiveFrom
                              THEN normalizeActiveFrom ELSE @]

\* 410-425: widen the active window of the matched class to cover the row's activeFrom.
WidenActiveWindow(row, normalizeActiveFrom) ==
  [row EXCEPT !.active_from = IF @ = NoDate \/ @ > normalizeActiveFrom
                              THEN normalizeActiveFrom ELSE @,
              !.active_to = IF @ # NoDate /\ @ < normalizeActiveFrom THEN NoDate ELSE @]

CapacityConflict(classId) ==
  [hasConflict |-> TRUE, conflicts |-> <<[classId |-> classId, reason |-> <<"capacity exceeded">>]>>]

\* 410: the row's activeFrom, for a recurring row that gives one.
NormalizeActiveFrom(payload) ==
  IF payload.scheduleMode = "recurring" /\ payload.activeFrom # NoDate
  THEN payload.activeFrom ELSE NoDate

\* 412-420: the matched class needs its active window written.
NeedsActiveUpdate(match, normalizeActiveFrom) ==
  normalizeActiveFrom # NoDate /\ WidenActiveWindow(match, normalizeActiveFrom) # match

\* 426-462: the matched class after its window update; enroll the student if there is a seat.
ImportEnroll(afterUpdate, classId, studentId, classType, fault) ==
  IF \E e \in enrollments : e.class_id = classId /\ e.student_id = studentId
  THEN Returned(afterUpdate, classId, NoConflict, "existing", FALSE)
  ELSE IF ClassIsFull(Cardinality({e \in enrollments : e.class_id = classId}), classType)
  THEN Returned(afterUpdate, classId, CapacityConflict(classId), "conflict", FALSE)
  ELSE IF fault = "class_enrollments.insert"
  THEN Thrown(afterUpdate, "enrollmentInsertError")
  ELSE Returned(InsertEnrollments(afterUpdate, classId, <<studentId>>),
                classId, NoConflict, "enrolled", FALSE)

\* 406-463: a class with the row's signature exists.
ImportMatched(payload, match, studentId, normalizeActiveFrom, fault) ==
  IF NeedsActiveUpdate(match, normalizeActiveFrom)
  THEN IF fault = "classes.update" THEN Thrown(Db, "activeUpdateError")
       ELSE ImportEnroll(UpdateClass(Db, match.id, WidenActiveWindow(match, normalizeActiveFrom)),
                         match.id, studentId, ClassTypes[payload.classTypeCode], fault)
  ELSE ImportEnroll(Db, match.id, studentId, ClassTypes[payload.classTypeCode], fault)

\* The delegation that reports "created" whatever the conflict checker said.
ImportCreatedAlways(created) ==
  IF created.outcome = "thrown" THEN created
  ELSE Returned(created.db, created.classId, created.conflict, "created", FALSE)

\* 465-469: no such class; the row is created.
ImportCreated(created) ==
  IF created.outcome = "thrown" THEN created
  ELSE IF created.conflict.hasConflict
  THEN Returned(created.db, NoId, created.conflict, "conflict", FALSE)
  ELSE Returned(created.db, created.classId, created.conflict, "created", FALSE)

ImportValidated(payload, actorUserId, match, fault, dedupedStudentIds) ==
  IF validateSchedulePayload([payload EXCEPT !.studentIds = dedupedStudentIds]) # {}
  THEN Thrown(Db, "validation")
  ELSE IF match # NoRow
  THEN ImportMatched(payload, match, dedupedStudentIds[1], NormalizeActiveFrom(payload), fault)
  ELSE ImportCreated(createScheduleWithEnrollments(payload, actorUserId, fault))

importScheduleRow(payload, actorUserId, match, fault) ==
  ImportValidated(payload, actorUserId, match, fault, Dedup(payload.studentIds))

(***************************************************************************)
(* updateScheduleStatus (679-709)                                          *)
(***************************************************************************)
\* The status update that returns without its log entry.
StatusWrittenNoLog(updated, classId, status, changedBy, reason, fault) ==
  IF fault = "class_status_logs.insert" THEN Thrown(updated, "logError")
  ELSE Returned(updated, classId, NoConflict, status, FALSE)

StatusWritten(updated, classId, status, changedBy, reason, fault) ==
  IF fault = "class_status_logs.insert" THEN Thrown(updated, "logError")
  ELSE Returned(InsertStatusLog(updated, LogEntry(classId, status, changedBy,
                                                  IF reason # NoReason THEN reason
                                                  ELSE <<"manual-update">>)),
                classId, NoConflict, status, FALSE)

StatusUpdate(classRow, status) == [classRow EXCEPT !.progress_status = status]

updateScheduleStatus(classId, status, changedBy, reason, fault) ==
  IF ~(\E r \in classes : r.id = classId) \/ fault = "classes.update"
  THEN Thrown(Db, "updateError")
  ELSE StatusWritten(UpdateClass(Db, classId,
                                 StatusUpdate(CHOOSE r \in classes : r.id = classId, status)),
                     classId, status, changedBy, reason, fault)

(***************************************************************************)
(* moveScheduleSlot (711-783)                                              *)
(***************************************************************************)
\* The new end time without the 30-minute floor.
MoveEndTimeNoFloor(classRow, target) ==
  addMinutes(target.startTime, timeToMinutes(fromSqlTime(classRow.end_time))
                                 - timeToMinutes(fromSqlTime(classRow.start_time)))

\* 727-730
MoveEndTime(classRow, target) ==
  addMinutes(target.startTime,
             IF timeToMinutes(fromSqlTime(classRow.end_time))
                  - timeToMinutes(fromSqlTime(classRow.start_time)) > MinMoveMinutes
             THEN timeToMinutes(fromSqlTime(classRow.end_time))
                    - timeToMinutes(fromSqlTime(classRow.start_time))
             ELSE MinMoveMinutes)

MoveConflict(classRow, target, rowOrder) ==
  checkMoveConflictForWeek([classId |-> classRow.id,
                            instructorId |-> classRow.instructor_id,
                            classTypeCode |-> classRow.class_type_code,
                            weekStart |-> target.weekStart,
                            weekday |-> target.weekday,
                            startTime |-> target.startTime,
                            endTime |-> MoveEndTime(classRow, target)], rowOrder)

\* Move that updates the class before it returns the conflict.
MoveConflictReturnAfterUpdate(db, classRow, target, conflict) ==
  [db |-> [db EXCEPT !.classes = {IF r.id = classRow.id
                                  THEN [r EXCEPT !.start_time = toSqlTime(target.startTime)]
                                  ELSE r : r \in @}],
   outcome |-> "ok", error |-> NoValue, classId |-> classRow.id, conflict |-> conflict,
   status |-> NoValue, moved |-> FALSE]

\* 741-743: a conflict at the destination is returned, nothing is written.
MoveConflictReturn(db, classRow, target, conflict) ==
  Returned(db, classRow.id, conflict, NoValue, FALSE)

MoveUpdate(classRow, target) ==
  IF classRow.schedule_mode = "recurring"
  THEN [classRow EXCEPT !.weekday = target.weekday,
                        !.start_time = toSqlTime(target.startTime),
                        !.end_time = toSqlTime(MoveEndTime(classRow, target))]
  ELSE [classRow EXCEPT !.class_date = addDays(target.weekStart, target.weekday - 1),
                        !.start_time = toSqlTime(target.startTime),
                        !.end_time = toSqlTime(MoveEndTime(classRow, target))]

\* The move that appends no log entry.
MoveWrittenNoLog(updated, classId, target, actorUserId, conflict, fault) ==
  IF fault = "class_status_logs.insert" THEN Thrown(updated, "logError")
  ELSE Returned(updated, classId, conflict, NoValue, TRUE)

\* 760-782: the update of the class and the log entry of the move.
MoveWritten(updated, classId, target, actorUserId, conflict, fault) ==
  IF fault = "class_status_logs.insert" THEN Thrown(updated, "logError")
  ELSE Returned(InsertStatusLog(updated,
                                LogEntry(classId, "planned", actorUserId,
                                         <<"drag-move", target.weekday, target.startTime>>)),
                classId, conflict, NoValue, TRUE)

MoveChecked(classRow, target, actorUserId, conflict, fault) ==
  IF conflict.hasConflict THEN MoveConflictReturn(Db, classRow, target, conflict)
  ELSE IF fault = "classes.update" \/ ~ClassRowAccepted(MoveUpdate(classRow, target))
  THEN Thrown(Db, "updateError")
  ELSE MoveWritten(UpdateClass(Db, classRow.id, MoveUpdate(classRow, target)),
                   classRow.id, target, actorUserId, conflict, fault)

MoveFound(classRow, target, actorUserId, fault, rowOrder) ==
  MoveChecked(classRow, target, actorUserId, MoveConflict(classRow, target, rowOrder), fault)

moveScheduleSlot(classId, target, actorUserId, fault, rowOrder) ==
  IF ~(\E r \in classes : r.id = classId) THEN Thrown(Db, "Class not found")
  ELSE MoveFound(CHOOSE r \in classes : r.id = classId, target, actorUserId, fault, rowOrder)

(***************************************************************************)
(* The storage calls of one operation, in the order the code makes them,   *)
(* with "conflict-check" where a run of the conflict checker has returned. *)
(* The checker's reads are entered as its first query; a call that returns *)
(* an error is entered too.                                                *)
(***************************************************************************)
\* 254-279
CheckCalls(payload) ==
  IF validateSchedulePayload(payload) # {} THEN <<>>
  ELSE <<"classes.select", "conflict-check">>

\* 314-363
CreateCalls(checked, fault) ==
  IF validateSchedulePayload(checked) # {} THEN <<>>
  ELSE IF CapacityExceeded(checked.studentIds, ClassTypes[checked.classTypeCode])
  THEN <<"class_types.select">>
  ELSE IF checkScheduleConflict(checked, NoId).hasConflict
  THEN <<"class_types.select">> \o CheckCalls(checked)
  ELSE IF fault = "classes.insert" \/ ~ClassRowAccepted(ClassInsertPayload(Db, checked, Actor))
  THEN <<"class_types.select">> \o CheckCalls(checked) \o <<"classes.insert">>
  ELSE IF fault = "class_enrollments.insert"
  THEN <<"class_types.select">> \o CheckCalls(checked)
         \o <<"classes.insert", "class_enrollments.insert", "classes.delete">>
  ELSE <<"class_types.select">> \o CheckCalls(checked)
         \o <<"classes.insert", "class_enrollments.insert">>

\* 406-462: the exact-match branch.
ImportMatchedCalls(classType, match, studentId, normalizeActiveFrom, fault) ==
  (IF NeedsActiveUpdate(match, normalizeActiveFrom) THEN <<"classes.update">> ELSE <<>>)
  \o
  (IF NeedsActiveUpdate(match, normalizeActiveFrom) /\ fault = "classes.update" THEN <<>>
   ELSE IF \E e \in enrollments : e.class_id = match.id /\ e.student_id = studentId
   THEN <<"class_enrollments.select">>
   ELSE IF ClassIsFull(Cardinality({e \in enrollments : e.class_id = match.id}), classType)
   THEN <<"class_enrollments.select", "class_types.select", "class_enrollments.select">>
   ELSE <<"class_enrollments.select", "class_types.select", "class_enrollments.select",
          "class_enrollments.insert">>)

\* 376-469
ImportCalls(checked, match, fault) ==
  IF validateSchedulePayload(checked) # {} THEN <<>>
  ELSE IF match # NoRow
  THEN <<"classes.select">>
         \o ImportMatchedCalls(ClassTypes[checked.classTypeCode], match, checked.studentIds[1],
                               NormalizeActiveFrom(checked), fault)
  ELSE <<"classes.select">> \o CreateCalls(checked, fault)

\* 686-706
StatusCalls(classId, fault) ==
  IF ~(\E r \in classes : r.id = classId) \/ fault = "classes.update"
  THEN <<"classes.update">>
  ELSE <<"classes.update", "class_status_logs.insert">>

\* 717-780
MoveCalls(classId, target, fault, rowOrder) ==
  IF ~(\E r \in classes : r.id = classId) THEN <<"classes.select">>
  ELSE IF MoveConflict(CHOOSE r \in classes : r.id = classId, target, rowOrder).hasConflict
  THEN <<"classes.select", "classes.select", "conflict-check">>
  ELSE IF \/ fault = "classes.update"
          \/ ~ClassRowAccepted(MoveUpdate(CHOOSE r \in classes : r.id = classId, target))
  THEN <<"classes.select", "classes.select", "conflict-check", "classes.update">>
  ELSE <<"classes.select", "classes.select", "conflict-check", "classes.update",
         "class_status_logs.insert">>

(***************************************************************************)
(* Requests.  The inputs of the operations, drawn from small sets.         *)
(***************************************************************************)
Payload(instructorId, studentIds, subjectCode, classTypeCode, mode, weekday, classDate, activeFrom, times) ==
  [instructorId |-> instructorId, studentIds |-> studentIds, subjectCode |-> subjectCode,
   classTypeCode |-> classTypeCode, note |-> "note", scheduleMode |-> mode,
   weekday |-> weekday, classDate |-> classDate, activeFrom |-> activeFrom,
   startTime |-> times[1], endTime |-> times[2]]

RecurringPayloads(instructors, lists, types, weekdays, activeFroms, times) ==
  {Payload(i, s, sub, ct, "recurring", wd, NoDate, af, t) :
     i \in instructors, s \in lists, sub \in SubjectCodes, ct \in types,
     wd \in weekdays, af \in activeFroms, t \in times}

OneOffPayloads(instructors, lists, types, dates, times) ==
  {Payload(i, s, sub, ct, "one_off", NoWeekday, d, NoDate, t) :
     i \in instructors, s \in lists, sub \in SubjectCodes, ct \in types,
     d \in dates, t \in times}

Hour10 == <<<<10, 0>>, <<11, 0>>>>
Hour11 == <<<<11, 0>>, <<12, 0>>>>

\* The conflict paths: two instructors, an exclusive and a shareable class type,
\* touching slots (a move to 10:30 overlaps both), one student per row.
EnginePayloads ==
  RecurringPayloads(InstructorIds, {<<"s1">>}, {"ONE_TO_ONE", "REGULAR_MULTI"}, {1}, {1, 8},
                    {Hour10, Hour11})
  \cup OneOffPayloads(InstructorIds, {<<"s1">>}, {"ONE_TO_ONE", "REGULAR_MULTI"}, {8},
                      {Hour10})

\* The enrollment paths: one instructor and slot, rows that differ in their students.
EnrollPayloads ==
  RecurringPayloads({"i1"}, {<<"s1">>, <<"s2">>, <<"s1", "s2">>, <<"s1", "s1">>},
                    {"ONE_TO_ONE", "TWO_TO_ONE", "REGULAR_MULTI"}, {1}, {1, 8}, {Hour10})

Targets == [weekday : {1, 2}, weekStart : WeekStarts, startTime : {<<10, 30>>}]

Queries ==
  [weekStart : WeekStarts, view : {"instructor"}, instructorId : InstructorIds \cup {NoValue},
   studentId : {NoValue}]
  \cup
  [weekStart : WeekStarts, view : {"student"}, instructorId : {NoValue}, studentId : {"s1", "s2"}]

UpdateReasons == {NoReason, <<"by phone">>}

SameSignature(p, q) ==
  /\ p.scheduleMode = q.scheduleMode
  /\ p.instructorId = q.instructorId
  /\ p.subjectCode = q.subjectCode
  /\ p.classTypeCode = q.classTypeCode
  /\ p.startTime = q.startTime
  /\ p.endTime = q.endTime
  /\ IF p.scheduleMode = "recurring" THEN p.weekday = q.weekday ELSE p.classDate = q.classDate

(***************************************************************************)
(* last: the most recent call, its arguments and what it returned.  chain  *)
(* is the position of an importRow call in a run of consecutive calls      *)
(* with one signature that began with a "created" call (0: not in one).    *)
(***************************************************************************)
Idle ==
  [op |-> "none", outcome |-> "ok", error |-> NoValue,
   payload |-> Payload(NoValue, <<>>, NoValue, NoValue, NoValue, NoWeekday, NoDate, NoDate,
                       <<NoTime, NoTime>>),
   exclude |-> NoId, classId |-> NoId, conflict |-> NoConflict, status |-> NoValue,
   moved |-> FALSE,
   target |-> [weekday |-> NoWeekday, weekStart |-> NoDate, startTime |-> NoTime],
   query |-> [weekStart |-> NoDate, view |-> NoValue, instructorId |-> NoValue,
              studentId |-> NoValue],
   events |-> <<>>, chain |-> 0, types |-> <<>>,
   rule |-> [isCompatible |-> FALSE, reason |-> NoReason], ranges |-> <<>>, overlap |-> FALSE,
   requested |-> NoValue, reason |-> NoReason, calls |-> <<>>]

\* A request slot with no request in it.  pc is the storage call the request makes
\* next, classId the class it inserted or matched, match the row its signature
\* query returned, seen the rows its last check read.
NoRequest ==
  [op |-> "none", pc |-> "none", payload |-> Idle.payload, classId |-> NoId,
   match |-> NoRow, seen |-> {}, outcome |-> "none"]

Commit(res) ==
  /\ classes' = res.db.classes
  /\ enrollments' = res.db.enrollments
  /\ overrides' = res.db.overrides
  /\ statusLogs' = res.db.statusLogs
  /\ UNCHANGED <<compatibility, inflight>>

Answer(op, res) ==
  [Idle EXCEPT !.op = op, !.outcome = res.outcome, !.error = res.error,
               !.classId = res.classId, !.conflict = res.conflict,
               !.status = res.status, !.moved = res.moved]

Init ==
  /\ classes = {}
  /\ enrollments = {}
  /\ overrides = {}
  /\ statusLogs = <<>>
  /\ compatibility = SeedCompatibility
  /\ last = Idle
  /\ inflight = [q \in {1, 2} |-> NoRequest]

CheckConflict(payload, excludeClassId) ==
  /\ last' = IF validateSchedulePayload(payload) # {}
             THEN [Idle EXCEPT !.op = "check", !.payload = payload, !.exclude = excludeClassId,
                               !.outcome = "thrown", !.error = "validation"]
             ELSE [Idle EXCEPT !.op = "check", !.payload = payload, !.exclude = excludeClassId,
                               !.conflict = checkScheduleConflict(payload, excludeClassId),
                               !.calls = CheckCalls(payload)]
  /\ UNCHANGED <<classes, enrollments, overrides, statusLogs, compatibility, inflight>>

HasRoom(reachesInsert) == reachesInsert => (FreeClassIds # {} /\ Len(statusLogs) < MaxLogs)

CreateDone(payload, fault, res) ==
  /\ Commit(res)
  /\ last' = [Answer("create", res)
               EXCEPT !.payload = payload,
                      !.calls = CreateCalls([payload EXCEPT !.studentIds = Dedup(@)], fault)]

Create(payload, fault) ==
  /\ HasRoom(CreateReachesInsert(payload))
  /\ fault # "none" => CreateReachesInsert(payload)
  /\ CreateDone(payload, fault, createScheduleWithEnrollments(payload, Actor, fault))

ImportFaults == {"none", "classes.insert", "classes.update", "class_enrollments.insert"}

ImportChain(payload, res) ==
  IF res.outcome # "ok" THEN 0
  ELSE IF last.op = "import" /\ last.chain \in {1, 2} /\ SameSignature(last.payload, payload)
  THEN last.chain + 1
  ELSE IF res.status = "created" THEN 1
  ELSE 0

\* The signature query that never returns a row.
ImportMatchesNone(checked) == {NoRow}

\* 377-407: the signature query is not made for a row that fails validation;
\* limit(1) returns any one row with the signature, or none.
ImportMatches(checked) ==
  IF validateSchedulePayload(checked) # {} \/ ExactRows(checked) = {} THEN {NoRow}
  ELSE ExactRows(checked)

ImportDone(payload, match, fault, res) ==
  /\ fault # "none" => res.outcome = "thrown" /\ res.error \notin {"validation", "capacity"}
  /\ Commit(res)
  /\ last' = [Answer("import", res)
               EXCEPT !.payload = payload,
                      !.chain = ImportChain(payload, res),
                      !.calls = ImportCalls([payload EXCEPT !.studentIds = Dedup(@)],
                                            match, fault)]

Import(payload, match, fault) ==
  /\ match \in ImportMatches([payload EXCEPT !.studentIds = Dedup(@)])
  /\ HasRoom(match = NoRow /\ CreateReachesInsert(payload))
  /\ ImportDone(payload, match, fault, importScheduleRow(payload, Actor, match, fault))

WriteFaults == {"none", "classes.update", "class_status_logs.insert"}

UpdateStatusDone(classId, status, reason, calls, res) ==
  /\ Commit(res)
  /\ last' = [Answer("updateStatus", res) EXCEPT !.classId = classId, !.requested = status,
                                                 !.reason = reason, !.calls = calls]

UpdateStatus(classId, status, reason, fault) ==
  /\ Len(statusLogs) < MaxLogs
  /\ fault # "none" => classId \in {r.id : r \in classes}
  /\ UpdateStatusDone(classId, status, reason, StatusCalls(classId, fault),
                      updateScheduleStatus(classId, status, Actor, reason, fault))

MoveDone(classId, target, fault, rowOrder, res) ==
  /\ fault # "none" => res.error \in {"updateError", "logError"}
  /\ (res.moved \/ fault # "none") => Len(statusLogs) < MaxLogs
  /\ Commit(res)
  /\ last' = [Answer("move", res) EXCEPT !.target = target, !.classId = classId,
                                         !.calls = MoveCalls(classId, target, fault, rowOrder)]

Move(classId, target, fault) ==
  \E rowOrder \in RowOrders :
    MoveDone(classId, target, fault, rowOrder,
             moveScheduleSlot(classId, target, Actor, fault, rowOrder))

FetchWeekDone(query, res) ==
  /\ last' = [Idle EXCEPT !.op = "fetchWeek", !.query = query,
                          !.outcome = IF res.thrown THEN "thrown" ELSE "ok",
                          !.events = res.events]
  /\ UNCHANGED <<classes, enrollments, overrides, statusLogs, compatibility, inflight>>

FetchWeek(query) ==
  \E rowOrder \in RowOrders : FetchWeekDone(query, fetchWeeklySchedule(query, rowOrder))

\* The caller takes the answer; the engine is ready for the next request.
Return ==
  /\ last.op # "none"
  /\ last' = Idle
  /\ UNCHANGED <<classes, enrollments, overrides, statusLogs, compatibility, inflight>>

\* The import route's batch loop: the next row of a batch for the same slot.
ImportNextRow(payload, match, fault) ==
  /\ last.op = "import"
  /\ last.chain \in {1, 2}
  /\ SameSignature(last.payload, payload)
  /\ Import(payload, match, fault)

(***************************************************************************)
(* The engine serving one request at a time (spec section 6).              *)
(***************************************************************************)
Next ==
  \/ /\ last.op = "none"
     /\ \/ \E payload \in EnginePayloads, excludeClassId \in {NoId} \cup {r.id : r \in classes} :
             CheckConflict(payload, excludeClassId)
        \/ \E payload \in EnginePayloads : Create(payload, "none")
        \/ \E payload \in EnginePayloads, match \in classes \cup {NoRow} :
             Import(payload, match, "none")
        \/ \E classId \in ClassIds, status \in {"confirmed"}, reason \in UpdateReasons :
             UpdateStatus(classId, status, reason, "none")
        \/ \E classId \in ClassIds, target \in Targets : Move(classId, target, "none")
        \/ \E query \in Queries : FetchWeek(query)
  \/ \E payload \in EnginePayloads, match \in classes \cup {NoRow} :
       ImportNextRow(payload, match, "none")
  \/ Return

Spec == Init /\ [][Next]_vars

(***************************************************************************)
(* Class creation and row import only, with rows that differ in students.  *)
(***************************************************************************)
NextEnroll ==
  \/ /\ last.op = "none"
     /\ \/ \E payload \in EnrollPayloads, fault \in {"none", "classes.insert", "class_enrollments.insert"} :
             Create(payload, fault)
        \/ \E payload \in EnrollPayloads, match \in classes \cup {NoRow}, fault \in ImportFaults :
             Import(payload, match, fault)
  \/ \E payload \in EnrollPayloads, match \in classes \cup {NoRow}, fault \in ImportFaults :
       ImportNextRow(payload, match, fault)
  \/ Return

SpecEnroll == Init /\ [][NextEnroll]_vars

(***************************************************************************)
(* Runs of importRow alone, from the empty store: rows of two subjects,    *)
(* two class types and both modes at one hour, for two students, with      *)
(* storage faults.                                                         *)
(***************************************************************************)
NextImport ==
  \/ \E payload \in RecurringPayloads({"i1"}, {<<"s1">>, <<"s2">>},
                                      {"ONE_TO_ONE", "REGULAR_MULTI"}, {1}, {1, 8}, {Hour10})
                    \cup OneOffPayloads({"i1"}, {<<"s1">>}, {"REGULAR_MULTI"}, {8}, {Hour10}),
        match \in classes \cup {NoRow}, fault \in ImportFaults :
       \/ last.op = "none" /\ Import(payload, match, fault)
       \/ ImportNextRow(payload, match, fault)
  \/ Return

SpecImport == Init /\ [][NextImport]_vars

(***************************************************************************)
(* The weekly materializer over classes with bounded active windows.  The  *)
(* service never writes a non-null active_to: an administrator ends a      *)
(* recurring class by setting the column in the classes table.             *)
(***************************************************************************)
CloseClass(classId, activeTo) ==
  /\ \E r \in classes : r.id = classId /\ r.schedule_mode = "recurring" /\ r.active_to = NoDate
  /\ classes' = {IF r.id = classId THEN [r EXCEPT !.active_to = activeTo] ELSE r : r \in classes}
  /\ UNCHANGED <<enrollments, overrides, statusLogs, compatibility, last, inflight>>

NextWeek ==
  \/ /\ last.op = "none"
     /\ \/ \E payload \in RecurringPayloads(InstructorIds, {<<"s1">>}, {"REGULAR_MULTI"},
                                              {1, 3}, {1, 10}, {Hour10})
                           \cup RecurringPayloads({"i1"}, {<<"s2">>}, {"REGULAR_MULTI"},
                                                  {1}, {1}, {Hour10}) :
             Create(payload, "none")
        \/ \E classId \in ClassIds, activeTo \in {7, 9} : CloseClass(classId, activeTo)
        \/ \E query \in Queries : FetchWeek(query)
  \/ Return

SpecWeek == Init /\ [][NextWeek]_vars

(***************************************************************************)
(* The shape of stored definitions: rows of both modes that carry a        *)
(* weekday, a date and an activeFrom at once, classes of 15 and 60         *)
(* minutes, and move targets the route passes on unchecked (a null         *)
(* weekday, start times near midnight).                                    *)
(***************************************************************************)
NextSlot ==
  \/ /\ last.op = "none"
     /\ \/ \E payload \in {Payload("i1", <<"s1">>, "MATH", "REGULAR_MULTI", mode, 2, 9, af,
                                     Hour10) : mode \in {"recurring", "one_off"}, af \in {1, 8}}
                           \cup {Payload("i1", <<"s1">>, "MATH", "REGULAR_MULTI", "recurring",
                                          2, 9, 1, <<<<10, 0>>, <<10, 15>>>>)} :
             \/ Create(payload, "none")
             \/ \E match \in classes \cup {NoRow} : Import(payload, match, "none")
        \/ \E classId \in ClassIds : UpdateStatus(classId, "confirmed", NoReason, "none")
        \/ \E classId \in ClassIds,
               target \in [weekday : {3}, weekStart : {8},
                           startTime : {<<10, 30>>, <<23, 0>>, <<23, 45>>}]
                          \cup {[weekday |-> NoWeekday, weekStart |-> 8,
                                 startTime |-> <<10, 30>>]} :
             Move(classId, target, "none")
        \/ \E classId \in ClassIds : CloseClass(classId, 7)
  \/ Return

SpecSlot == Init /\ [][NextSlot]_vars

(***************************************************************************)
(* Two requests in flight at once.  Each await of a storage call is a      *)
(* point where the other request can run: a request is at the call named   *)
(* by pc, and a step makes that call and moves to the next one.            *)
(***************************************************************************)
\* A request that has returned or thrown: its locals are gone.
Done(req, outcome) == [NoRequest EXCEPT !.op = req.op, !.pc = "done", !.outcome = outcome]

\* A request arrives (314-318 / 376-384) and takes the first free slot.
Begin(q, op, payload) ==
  /\ inflight[q].pc \in {"none", "done"}
  /\ q = 1 \/ inflight[1].pc \notin {"none", "done"}
  /\ inflight' = [inflight EXCEPT ![q] =
       IF validateSchedulePayload([payload EXCEPT !.studentIds = Dedup(@)]) # {}
       THEN [NoRequest EXCEPT !.op = op, !.pc = "done", !.outcome = "validation"]
       ELSE [NoRequest EXCEPT !.op = op,
                              !.pc = IF op = "create" THEN "check" ELSE "exactQuery",
                              !.payload = [payload EXCEPT !.studentIds = Dedup(@)]]]
  /\ UNCHANGED <<classes, enrollments, overrides, statusLogs, compatibility, last>>

\* The unique constraint that refuses nothing.
UniqueViolationNever(classId, studentId) == FALSE

\* unique (class_id, student_id) of class_enrollments.
UniqueViolation(classId, studentId) ==
  \E e \in enrollments : e.class_id = classId /\ e.student_id = studentId

\* createScheduleWithEnrollments, one storage call at a time: the checks (320-328),
\* the class insert with its trigger (343-351), the enrollment insert (353-358) and
\* the compensating delete (360-363).
CreateStep(q, fault) ==
  \/ /\ inflight[q].pc = "check"
     /\ fault = "none"
     /\ inflight' = [inflight EXCEPT ![q] =
          IF ChecksPass(inflight[q].payload)
          THEN [@ EXCEPT !.pc = "insertClass", !.seen = classes]
          ELSE IF CapacityExceeded(@.payload.studentIds, ClassTypes[@.payload.classTypeCode])
          THEN Done(@, "capacity")
          ELSE Done(@, "conflict")]
     /\ UNCHANGED <<classes, enrollments, overrides, statusLogs, compatibility, last>>
  \/ /\ inflight[q].pc = "insertClass"
     /\ fault = "none"
     /\ FreeClassIds # {}
     /\ Len(statusLogs) < MaxLogs
     /\ classes' = InsertClass(Db, ClassInsertPayload(Db, inflight[q].payload, Actor)).classes
     /\ statusLogs' = InsertClass(Db, ClassInsertPayload(Db, inflight[q].payload, Actor)).statusLogs
     /\ inflight' = [inflight EXCEPT ![q].pc = "insertEnrollments",
                                     ![q].classId = NewClassId(Db)]
     /\ UNCHANGED <<enrollments, overrides, compatibility, last>>
  \/ /\ inflight[q].pc = "insertEnrollments"
     /\ IF \/ fault = "class_enrollments.insert"
           \/ \E i \in 1..Len(inflight[q].payload.studentIds) :
                UniqueViolation(inflight[q].classId, inflight[q].payload.studentIds[i])
        THEN /\ inflight' = [inflight EXCEPT ![q].pc = "delete"]
             /\ UNCHANGED enrollments
        ELSE /\ enrollments' = InsertEnrollments(Db, inflight[q].classId,
                                                 inflight[q].payload.studentIds).enrollments
             /\ inflight' = [inflight EXCEPT ![q] = Done(@, "created")]
     /\ UNCHANGED <<classes, overrides, statusLogs, compatibility, last>>
  \/ /\ inflight[q].pc = "delete"
     /\ fault = "none"
     /\ classes' = DeleteClass(Db, inflight[q].classId).classes
     /\ enrollments' = DeleteClass(Db, inflight[q].classId).enrollments
     /\ overrides' = DeleteClass(Db, inflight[q].classId).overrides
     /\ statusLogs' = DeleteClass(Db, inflight[q].classId).statusLogs
     /\ inflight' = [inflight EXCEPT ![q] = Done(@, "enrollmentError")]
     /\ UNCHANGED <<compatibility, last>>

\* importScheduleRow, one storage call at a time: the signature query (386-404), the
\* update of the active window (412-425, written from the values the query read),
\* the read of the student's enrollment (426-436), the count (438-454) and the
\* enrollment insert (456-460); with no match the row goes through create (465).
ImportStep(q, match) ==
  \/ /\ inflight[q].pc = "exactQuery"
     /\ match \in ImportMatches(inflight[q].payload)
     /\ inflight' = [inflight EXCEPT ![q] =
          IF match = NoRow THEN [@ EXCEPT !.pc = "check"]
          ELSE [@ EXCEPT !.classId = match.id, !.match = match,
                         !.pc = IF NeedsActiveUpdate(match,
                                                     NormalizeActiveFrom(inflight[q].payload))
                                THEN "updateWindow" ELSE "readEnrollment"]]
     /\ UNCHANGED <<classes, enrollments, overrides, statusLogs, compatibility, last>>
  \/ /\ inflight[q].pc = "updateWindow"
     /\ match = NoRow
     /\ classes' =
          {IF r.id # inflight[q].classId THEN r
           ELSE [r EXCEPT
                  !.active_from =
                    IF WidenActiveWindow(inflight[q].match,
                                         NormalizeActiveFrom(inflight[q].payload)).active_from
                         # inflight[q].match.active_from
                    THEN NormalizeActiveFrom(inflight[q].payload) ELSE @,
                  !.active_to =
                    IF WidenActiveWindow(inflight[q].match,
                                         NormalizeActiveFrom(inflight[q].payload)).active_to
                         # inflight[q].match.active_to
                    THEN NoDate ELSE @] : r \in classes}
     /\ inflight' = [inflight EXCEPT ![q].pc = "readEnrollment"]
     /\ UNCHANGED <<enrollments, overrides, statusLogs, compatibility, last>>
  \/ /\ inflight[q].pc = "readEnrollment"
     /\ match = NoRow
     /\ inflight' = [inflight EXCEPT ![q] =
          IF \E e \in enrollments : /\ e.class_id = @.classId
                                    /\ e.student_id = @.payload.studentIds[1]
          THEN Done(@, "existing")
          ELSE [@ EXCEPT !.pc = "count"]]
     /\ UNCHANGED <<classes, enrollments, overrides, statusLogs, compatibility, last>>
  \/ /\ inflight[q].pc = "count"
     /\ match = NoRow
     /\ inflight' = [inflight EXCEPT ![q] =
          IF ClassIsFull(Cardinality({e \in enrollments : e.class_id = @.classId}),
                         ClassTypes[@.payload.classTypeCode])
          THEN Done(@, "conflict")
          ELSE [@ EXCEPT !.pc = "insertEnrollment",
                         !.seen = {e \in enrollments : e.class_id = inflight[q].classId}]]
     /\ UNCHANGED <<classes, enrollments, overrides, statusLogs, compatibility, last>>
  \/ /\ inflight[q].pc = "insertEnrollment"
     /\ match = NoRow
     /\ IF ~\E r \in classes : r.id = inflight[q].classId
        THEN /\ inflight' = [inflight EXCEPT ![q] = Done(@, "foreign key violation")]
             /\ UNCHANGED enrollments
        ELSE IF UniqueViolation(inflight[q].classId, inflight[q].payload.studentIds[1])
        THEN /\ inflight' = [inflight EXCEPT ![q] = Done(@, "unique violation")]
             /\ UNCHANGED enrollments
        ELSE /\ enrollments' = InsertEnrollments(Db, inflight[q].classId,
                                                 <<inflight[q].payload.studentIds[1]>>).enrollments
             /\ inflight' = [inflight EXCEPT ![q] = Done(@, "enrolled")]
     /\ UNCHANGED <<classes, overrides, statusLogs, compatibility, last>>

NextRace ==
  \/ \E q \in {1, 2},
        payload \in RecurringPayloads({"i1"}, {<<"s1">>}, {"TWO_TO_ONE"}, {1}, {1, 8},
                                      {Hour10}) :
       Begin(q, "create", payload)
  \/ \E q \in {1, 2},
        payload \in RecurringPayloads({"i1"}, {<<"s2">>, <<"s3">>}, {"TWO_TO_ONE"}, {1}, {1},
                                      {Hour10}) :
       Begin(q, "import", payload)
  \/ \E q \in {1, 2}, fault \in {"none", "class_enrollments.insert"} : CreateStep(q, fault)
  \/ \E q \in {1, 2}, match \in classes \cup {NoRow} : ImportStep(q, match)

SpecRace == Init /\ [][NextRace]_vars

(***************************************************************************)
(* The weekly materializer over per-date overrides.  The service only      *)
(* reads class_overrides: rows are written to the table directly, one per  *)
(* (class_id, override_date).                                              *)
(***************************************************************************)
WriteOverride(row) ==
  /\ Cardinality(overrides) < MaxOverrides
  /\ \E r \in classes : r.id = row.class_id
  /\ ~\E o \in overrides : o.class_id = row.class_id /\ o.override_date = row.override_date
  /\ overrides' = overrides \cup {row}
  /\ UNCHANGED <<classes, enrollments, statusLogs, compatibility, last, inflight>>

NextOverride ==
  \/ /\ last.op = "none"
     /\ \/ \E payload \in RecurringPayloads(InstructorIds, {<<"s1">>}, {"REGULAR_MULTI"},
                                              {1}, {1}, {Hour10}) :
             Create(payload, "none")
        \/ \E row \in {[class_id |-> c, override_date |-> d, action |-> a[1],
                         override_instructor_id |-> a[2], override_start_time |-> NoTime,
                         override_end_time |-> NoTime, override_status |-> NoValue] :
                          c \in ClassIds, d \in {1, 8, 9},
                          a \in {<<"cancel", NoValue>>}
                                \cup {<<"reschedule", i>> : i \in InstructorIds}} :
             WriteOverride(row)
        \/ \E query \in Queries : FetchWeek(query)
  \/ Return

SpecOverride == Init /\ [][NextOverride]_vars

(***************************************************************************)
(* Moves and weekly views over occurrences that an override cancels,       *)
(* reassigns, retimes (both times, or the start alone) or restatuses: two  *)
(* one-to-one classes of one instructor at 10:00 and 11:00 on Mondays.     *)
(***************************************************************************)
NextReschedule ==
  \/ /\ last.op = "none"
     /\ \/ \E times \in {Hour10, Hour11} :
             Create(Payload("i1", <<"s1">>, "MATH", "ONE_TO_ONE", "recurring", 1, NoDate, 1,
                            times), "none")
        \/ \E c \in ClassIds,
              a \in {<<1, "cancel", NoValue, NoTime, NoTime, NoValue>>,
                     <<8, "cancel", NoValue, NoTime, NoTime, NoValue>>,
                     <<8, "reschedule", "i2", NoTime, NoTime, NoValue>>,
                     <<8, "reschedule", NoValue, <<12, 0, 0>>, <<13, 0, 0>>, NoValue>>,
                     <<8, "reschedule", NoValue, <<12, 0, 0>>, NoTime, NoValue>>,
                     <<8, "status_only", NoValue, NoTime, NoTime, "confirmed">>} :
             WriteOverride([class_id |-> c, override_date |-> a[1], action |-> a[2],
                            override_instructor_id |-> a[3], override_start_time |-> a[4],
                            override_end_time |-> a[5], override_status |-> a[6]])
        \/ \E classId \in ClassIds, startTime \in {<<10, 30>>, <<12, 30>>} :
             Move(classId, [weekday |-> 1, weekStart |-> 8, startTime |-> startTime], "none")
        \/ \E instructorId \in {"i1", NoValue} :
             FetchWeek([weekStart |-> 8, view |-> "instructor", instructorId |-> instructorId,
                        studentId |-> NoValue])
  \/ Return

SpecReschedule == Init /\ [][NextReschedule]_vars

(***************************************************************************)
(* The rule lookup over arbitrary rule tables: class_type_compatibility    *)
(* has primary key (class_type_a, class_type_b) and a nullable reason.     *)
(***************************************************************************)
RuleTypes == {"ONE_TO_ONE", "REGULAR_MULTI"}

RuleTables ==
  {t \in SUBSET ({[class_type_a |-> a, class_type_b |-> b, is_compatible |-> c,
                    reason |-> <<"rule", a, b>>] :
                     a \in RuleTypes, b \in RuleTypes, c \in BOOLEAN}
                  \cup
                  {[class_type_a |-> a, class_type_b |-> b, is_compatible |-> FALSE,
                    reason |-> NoReason] : a \in RuleTypes, b \in RuleTypes}) :
     \A r1 \in t, r2 \in t :
       (r1.class_type_a = r2.class_type_a /\ r1.class_type_b = r2.class_type_b) => r1 = r2}

InitRules ==
  /\ classes = {}
  /\ enrollments = {}
  /\ overrides = {}
  /\ statusLogs = <<>>
  /\ compatibility \in RuleTables
  /\ last = Idle
  /\ inflight = [q \in {1, 2} |-> NoRequest]

\* 262 and 272: the map is loaded for the types of the overlapping rows and asked
\* about one of them.
Resolve(candidateType, existingTypes, existingType) ==
  /\ existingType \in existingTypes
  /\ last' = [Idle EXCEPT !.op = "resolve",
                          !.types = <<candidateType, existingType>>,
                          !.rule = resolveCompatibility(
                                     loadCompatibilityMap(candidateType, existingTypes),
                                     candidateType, existingType)]
  /\ UNCHANGED <<classes, enrollments, overrides, statusLogs, compatibility, inflight>>

NextRules ==
  \/ /\ last.op = "none"
     /\ \E candidateType \in RuleTypes, existingTypes \in SUBSET RuleTypes, existingType \in RuleTypes :
          Resolve(candidateType, existingTypes, existingType)
  \/ Return

SpecRules == InitRules /\ [][NextRules]_vars

(***************************************************************************)
(* The conflict checker over partially overlapping slots: 10:00-11:00,     *)
(* 10:30-11:30 and 11:00-12:00 on one weekday.                             *)
(***************************************************************************)
CheckPayloads ==
  RecurringPayloads(InstructorIds, {<<"s1">>}, {"ONE_TO_ONE", "REGULAR_MULTI"}, {1}, {1},
                    {Hour10, <<<<10, 30>>, <<11, 30>>>>, Hour11})

NextCheck ==
  \/ /\ last.op = "none"
     /\ \/ \E payload \in CheckPayloads, excludeClassId \in {NoId} \cup {r.id : r \in classes} :
             CheckConflict(payload, excludeClassId)
        \/ \E payload \in CheckPayloads : Create(payload, "none")
  \/ Return

SpecCheck == Init /\ [][NextCheck]_vars

(***************************************************************************)
(* The conflict checker and class creation over arbitrary rule tables: one  *)
(* instructor's one-to-one classes at 10:00 and 10:30 and group classes at *)
(* 10:30 and 11:00 on Mondays.                                             *)
(***************************************************************************)
NextRuleCheck ==
  \/ /\ last.op = "none"
     /\ \E payload \in RecurringPayloads({"i1"}, {<<"s1">>}, {"ONE_TO_ONE"}, {1}, {1},
                                         {Hour10, <<<<10, 30>>, <<11, 30>>>>})
                       \cup RecurringPayloads({"i1"}, {<<"s1">>}, {"REGULAR_MULTI"}, {1}, {1},
                                              {<<<<10, 30>>, <<11, 30>>>>, Hour11}) :
          \/ \E excludeClassId \in {NoId} \cup {r.id : r \in classes} :
               CheckConflict(payload, excludeClassId)
          \/ Create(payload, "none")
  \/ Return

SpecRuleCheck == InitRules /\ [][NextRuleCheck]_vars

(***************************************************************************)
(* The overlap set of recurring and one_off candidates: one-to-one classes *)
(* at 10:00 on Mondays and Tuesdays starting on day 1 or day 10, on the    *)
(* dates 8 (a Monday) and 9, some closed on day 7 by an administrator;     *)
(* candidates with and without an activeFrom, at 10:00 and at 11:00.       *)
(***************************************************************************)
NextOverlapSet ==
  \/ /\ last.op = "none"
     /\ \/ \E payload \in {Payload("i1", <<"s1">>, "MATH", "ONE_TO_ONE", "recurring", wd, NoDate,
                                   af, Hour10) : wd \in {1, 2}, af \in {1, 10}}
                          \cup {Payload("i2", <<"s1">>, "MATH", "ONE_TO_ONE", "recurring", 1,
                                        NoDate, 1, Hour10)}
                          \cup {Payload("i1", <<"s1">>, "MATH", "ONE_TO_ONE", "one_off",
                                        NoWeekday, d, NoDate, Hour10) : d \in {8, 9}} :
             Create(payload, "none")
        \/ \E classId \in ClassIds : CloseClass(classId, 7)
        \/ \E payload \in {Payload("i1", <<"s1">>, "MATH", "ONE_TO_ONE", "recurring", wd, NoDate,
                                   af, t) :
                             wd \in {1, 2}, af \in {NoDate, 8, 10}, t \in {Hour10, Hour11}}
                          \cup {Payload("i1", <<"s1">>, "MATH", "ONE_TO_ONE", "one_off",
                                        NoWeekday, d, NoDate, t) :
                                  d \in {8, 9, 15}, t \in {Hour10, Hour11}} :
             CheckConflict(payload, NoId)
  \/ Return

SpecOverlapSet == Init /\ [][NextOverlapSet]_vars

(***************************************************************************)
(* rangesOverlap over "HH:mm" strings between 09:45 and 12:00.             *)
(***************************************************************************)
Overlap(startA, endA, startB, endB) ==
  /\ last' = [Idle EXCEPT !.op = "overlap",
                          !.ranges = <<startA, endA, startB, endB>>,
                          !.overlap = rangesOverlap(startA, endA, startB, endB)]
  /\ UNCHANGED <<classes, enrollments, overrides, statusLogs, compatibility, inflight>>

NextOverlap ==
  \/ /\ last.op = "none"
     /\ \E startA, endA, startB, endB \in {<<9, 45>>, <<10, 0>>, <<10, 30>>, <<11, 0>>,
                                            <<11, 30>>, <<12, 0>>} :
          Overlap(startA, endA, startB, endB)
  \/ Return

SpecOverlap == Init /\ [][NextOverlap]_vars

(***************************************************************************)
(* Status updates and moves of created classes, with storage faults on     *)
(* the class update and on the status-log insert.                          *)
(***************************************************************************)
NextWrite ==
  \/ /\ last.op = "none"
     /\ \/ \E payload \in RecurringPayloads({"i1"}, {<<"s1">>}, {"ONE_TO_ONE"}, {1}, {1},
                                              {Hour10, Hour11}) :
             Create(payload, "none")
        \/ \E classId \in ClassIds, status \in {"confirmed", "completed"}, reason \in UpdateReasons, fault \in WriteFaults :
             UpdateStatus(classId, status, reason, fault)
        \/ \E classId \in ClassIds, target \in Targets, fault \in WriteFaults :
             Move(classId, target, fault)
  \/ Return

SpecWrite == Init /\ [][NextWrite]_vars

(***************************************************************************)
(* The status of a class and its log under create, updateStatus and        *)
(* moveSlot, without storage faults.                                       *)
(***************************************************************************)
NextStatus ==
  \/ /\ last.op = "none"
     /\ \/ \E times \in {Hour10, Hour11} :
             Create(Payload("i1", <<"s1">>, "MATH", "ONE_TO_ONE", "recurring", 1, NoDate, 1,
                            times), "none")
        \/ \E classId \in ClassIds, status \in {"planned", "confirmed", "cancelled"} :
             UpdateStatus(classId, status, NoReason, "none")
        \/ \E classId \in ClassIds, weekday \in {1, 2} :
             Move(classId, [weekday |-> weekday, weekStart |-> 1, startTime |-> <<10, 30>>],
                  "none")
  \/ Return

SpecStatus == Init /\ [][NextStatus]_vars

(***************************************************************************)
(* The operations that validate their payload, over well-formed payloads   *)
(* and payloads with one defect each.                                      *)
(***************************************************************************)
ValidatePayloads ==
  RecurringPayloads({"i1"}, {<<"s1">>, <<"s2">>}, {"REGULAR_MULTI"}, {1}, {1}, {Hour10})
  \cup OneOffPayloads({"i1"}, {<<"s1">>}, {"REGULAR_MULTI"}, {8}, {Hour10})

InvalidPayloads ==
  UNION {{[p EXCEPT !.instructorId = NoValue],
          [p EXCEPT !.subjectCode = NoValue],
          [p EXCEPT !.classTypeCode = NoValue],
          [p EXCEPT !.note = NoValue],
          [p EXCEPT !.startTime = NoTime],
          [p EXCEPT !.endTime = NoTime],
          [p EXCEPT !.endTime = p.startTime],
          [p EXCEPT !.startTime = p.endTime, !.endTime = p.startTime],
          [p EXCEPT !.studentIds = <<>>],
          IF p.scheduleMode = "recurring" THEN [p EXCEPT !.weekday = NoWeekday]
                                          ELSE [p EXCEPT !.classDate = NoDate],
          IF p.scheduleMode = "recurring" THEN [p EXCEPT !.weekday = 8]
                                          ELSE [p EXCEPT !.classDate = NoDate]} :
         p \in ValidatePayloads}

NextValidate ==
  \/ /\ last.op = "none"
     /\ \/ \E payload \in ValidatePayloads \cup InvalidPayloads,
               excludeClassId \in {NoId} \cup {r.id : r \in classes} :
             CheckConflict(payload, excludeClassId)
        \/ \E payload \in ValidatePayloads \cup InvalidPayloads : Create(payload, "none")
        \/ \E payload \in ValidatePayloads \cup InvalidPayloads, match \in classes \cup {NoRow} :
             Import(payload, match, "none")
  \/ Return

SpecValidate == Init /\ [][NextValidate]_vars

(***************************************************************************)
(* Properties.                                                             *)
(***************************************************************************)
KeyOrder == [i \in ClassIds |-> i]

AllEvents(weekStart) ==
  fetchWeeklySchedule([weekStart |-> weekStart, view |-> "instructor",
                       instructorId |-> NoValue, studentId |-> NoValue], KeyOrder).events

Incompatible(typeA, typeB) == ~resolveCompatibility(compatibility, typeA, typeB).isCompatible

DoubleBooked(a, b) ==
  /\ a.id # b.id
  /\ a.instructorId = b.instructorId
  /\ a.classDate = b.classDate
  /\ rangesOverlap(a.startTime, a.endTime, b.startTime, b.endTime)
  /\ Incompatible(a.classTypeCode, b.classTypeCode)

EnrolledIn(classId) == {e.student_id : e \in {x \in enrollments : x.class_id = classId}}

ClassById(classId) == CHOOSE r \in classes : r.id = classId

MaxStudentsOf(row) == ClassTypes[row.class_type_code].max_students

\* C1: after any sequence of createWithEnrollment, importRow and moveSlot calls
\* served one at a time from a conflict-free store, no week holds two events of
\* one effective instructor on one date with overlapping times and incompatible
\* class types.
C1_NoDoubleBooking ==
  \A weekStart \in WeekStarts :
    LET events == AllEvents(weekStart)
    IN  \A i \in 1..Len(events), j \in 1..Len(events) : ~DoubleBooked(events[i], events[j])

\* C2: checkConflict reports hasConflict exactly when its list is non-empty, and
\* the list holds exactly one entry for every definition of the overlap set that
\* is incompatible with the candidate's type, and nothing else.
C2_ReferenceDate(payload) ==
  IF payload.activeFrom = NoDate THEN Today ELSE payload.activeFrom

C2_OverlapSet(payload, excludeClassId) ==
  {r \in classes :
     /\ r.instructor_id = payload.instructorId
     /\ excludeClassId # NoId => r.id # excludeClassId
     /\ IF payload.scheduleMode = "recurring"
        THEN /\ r.schedule_mode = "recurring"
             /\ r.weekday = payload.weekday
             /\ r.active_from <= C2_ReferenceDate(payload)
             /\ (r.active_to = NoDate \/ r.active_to >= C2_ReferenceDate(payload))
        ELSE \/ r.schedule_mode = "one_off" /\ r.class_date = payload.classDate
             \/ /\ r.schedule_mode = "recurring"
                /\ r.weekday = dateToWeekday(payload.classDate)
                /\ r.active_from <= payload.classDate
                /\ (r.active_to = NoDate \/ r.active_to >= payload.classDate)
     /\ timeToMinutes(payload.startTime) < r.end_time[1] * 60 + r.end_time[2]
     /\ timeToMinutes(payload.endTime) > r.start_time[1] * 60 + r.start_time[2]}

C2_CheckConflictExact ==
  last.op = "check" =>
    LET expected == {r.id : r \in {x \in C2_OverlapSet(last.payload, last.exclude) :
                                     Incompatible(last.payload.classTypeCode, x.class_type_code)}}
        conflicts == last.conflict.conflicts
    IN  /\ last.conflict.hasConflict <=> Len(conflicts) > 0
        /\ {conflicts[i].classId : i \in 1..Len(conflicts)} = expected
        /\ Len(conflicts) = Cardinality(expected)

\* C2 witness: a check that reported one of two stored definitions and excluded
\* or cleared the other.
C2_Witness ==
  /\ last.op = "check"
  /\ last.conflict.hasConflict
  /\ Len(last.conflict.conflicts) = 1
  /\ Cardinality(classes) = 2

\* C3: when createWithEnrollment finds a conflict it returns that conflict with
\* an empty classId and the definitions, enrollments and status log are as before.
C3_CreateConflictWritesNothing ==
  [][(/\ last'.op = "create"
      /\ validateSchedulePayload(last'.payload) = {}
      /\ Len(Dedup(last'.payload.studentIds)) <= ClassTypes[last'.payload.classTypeCode].max_students
      /\ C2_OverlapSet(last'.payload, NoId) # {}
      /\ \E r \in C2_OverlapSet(last'.payload, NoId) :
           Incompatible(last'.payload.classTypeCode, r.class_type_code))
     => (/\ last'.outcome = "ok"
         /\ last'.conflict.hasConflict
         /\ last'.classId = NoId
         /\ classes' = classes
         /\ enrollments' = enrollments
         /\ statusLogs' = statusLogs)]_vars

\* C3 witness: a create call that returned a conflict.
C3_Witness ==
  /\ last.op = "create"
  /\ last.outcome = "ok"
  /\ last.conflict.hasConflict
  /\ last.classId = NoId
  /\ classes # {}

C5_EnrollmentWithinCapacity ==
  \A r \in classes : Cardinality(EnrolledIn(r.id)) <= MaxStudentsOf(r)

\* C5 witness: an import enrolled a student into the last free seat of a class.
C5_Witness ==
  /\ last.op = "import"
  /\ last.status = "enrolled"
  /\ \E r \in classes : r.id = last.classId /\ Cardinality(EnrolledIn(r.id)) = MaxStudentsOf(r)

\* C6: createWithEnrollment called with more distinct students than the class
\* type allows returns a result; it does not end in a hard failure.
C6_CapacityIsAResult ==
  (/\ last.op = "create"
   /\ validateSchedulePayload(last.payload) = {}
   /\ Cardinality(Range(last.payload.studentIds))
        > ClassTypes[last.payload.classTypeCode].max_students)
  => last.outcome = "ok"

\* C7: of three successive importRow calls with one signature, starting with no
\* stored match and no conflict: the first returns "created"; the second, with a
\* student not yet enrolled and a free seat, returns "enrolled" and adds exactly
\* that enrollment to the same class; the third, with an enrolled student,
\* returns "existing" and adds no enrollment and no definition.
C7_First ==
  (/\ last'.op = "import"
   /\ last'.outcome = "ok"
   /\ ~\E r \in classes : /\ r.schedule_mode = last'.payload.scheduleMode
                          /\ r.instructor_id = last'.payload.instructorId
                          /\ r.subject_code = last'.payload.subjectCode
                          /\ r.class_type_code = last'.payload.classTypeCode
                          /\ fromSqlTime(r.start_time) = last'.payload.startTime
                          /\ fromSqlTime(r.end_time) = last'.payload.endTime
                          /\ r.weekday = last'.payload.weekday
                          /\ r.class_date = last'.payload.classDate
   /\ ~\E r \in C2_OverlapSet(last'.payload, NoId) :
         Incompatible(last'.payload.classTypeCode, r.class_type_code))
  => /\ last'.status = "created"
     /\ last'.chain = 1
     /\ \E r \in classes' \ classes : r.id = last'.classId

C7_Second ==
  (/\ last'.op = "import"
   /\ last'.chain = 2
   /\ last'.payload.studentIds[1] \notin EnrolledIn(last.classId)
   /\ Cardinality(EnrolledIn(last.classId)) < MaxStudentsOf(ClassById(last.classId)))
  => /\ last'.status = "enrolled"
     /\ last'.classId = last.classId
     /\ \E e \in enrollments' \ enrollments :
          /\ e.class_id = last.classId
          /\ e.student_id = last'.payload.studentIds[1]
          /\ enrollments' = enrollments \cup {e}
     /\ {r.id : r \in classes'} = {r.id : r \in classes}

C7_Third ==
  (/\ last'.op = "import"
   /\ last'.chain = 3
   /\ last'.payload.studentIds[1] \in EnrolledIn(last.classId))
  => /\ last'.status = "existing"
     /\ last'.classId = last.classId
     /\ enrollments' = enrollments
     /\ {r.id : r \in classes'} = {r.id : r \in classes}

C7_ImportThreeTimes == [][C7_First /\ C7_Second /\ C7_Third]_vars

\* C7 witness: the third call of such a run returned "existing" after a second
\* call that enrolled a student.
C7_Witness ==
  /\ last.op = "import"
  /\ last.chain = 3
  /\ last.status = "existing"
  /\ Cardinality(EnrolledIn(last.classId)) >= 2

\* C8: when importRow matches a definition by signature, the student is not
\* enrolled in it and the class has no free seat, importRow returns "conflict"
\* with hasConflict and adds no enrollment.
C8_ImportFullClass ==
  [][(/\ last'.op = "import"
      /\ last'.outcome = "ok"
      /\ \E r \in classes : r.id = last'.classId
      /\ last'.payload.studentIds[1] \notin EnrolledIn(last'.classId)
      /\ Cardinality(EnrolledIn(last'.classId)) >= MaxStudentsOf(ClassById(last'.classId)))
     => (/\ last'.status = "conflict"
         /\ last'.conflict.hasConflict
         /\ enrollments' = enrollments)]_vars

\* C8 witness: an import was refused for a matched class that is full.
C8_Witness ==
  /\ last.op = "import"
  /\ last.status = "conflict"
  /\ last.conflict.hasConflict
  /\ \E r \in classes : r.id = last.classId /\ Cardinality(EnrolledIn(r.id)) = MaxStudentsOf(r)

\* C9: when moveSlot detects a conflict at the destination it returns moved =
\* false with the conflict; the definition's weekday, date and times are as
\* before and no status log entry is appended.
C9_MoveTargetBlocked(classRow, target) ==
  \E weekStartEvent \in Range(fetchWeeklySchedule([weekStart |-> target.weekStart,
                                                   view |-> "instructor",
                                                   instructorId |-> classRow.instructor_id,
                                                   studentId |-> NoValue], KeyOrder).events) :
    /\ weekStartEvent.id # classRow.id
    /\ weekStartEvent.weekday = target.weekday
    /\ rangesOverlap(target.startTime, MoveEndTime(classRow, target),
                     weekStartEvent.startTime, weekStartEvent.endTime)
    /\ Incompatible(classRow.class_type_code, weekStartEvent.classTypeCode)

C9_MoveConflictWritesNothing ==
  [][(/\ last'.op = "move"
      /\ \E r \in classes : r.id = last'.classId
      /\ C9_MoveTargetBlocked(ClassById(last'.classId), last'.target))
     => (/\ last'.outcome = "ok"
         /\ last'.moved = FALSE
         /\ last'.conflict.hasConflict
         /\ classes' = classes
         /\ statusLogs' = statusLogs)]_vars

\* C9 witness: a move that was refused because of a conflict.
C9_Witness ==
  /\ last.op = "move"
  /\ last.outcome = "ok"
  /\ ~last.moved
  /\ last.conflict.hasConflict

\* C10: fetchWeek emits no event of a recurring definition dated before the
\* definition's activeFrom or after its non-null activeTo.
C10_EventsInsideActiveWindow ==
  last.op = "fetchWeek" =>
    \A i \in 1..Len(last.events) :
      LET event == last.events[i]
          row == ClassById(event.id)
      IN  event.scheduleMode = "recurring" =>
            /\ row.active_from <= event.classDate
            /\ (row.active_to # NoDate => event.classDate <= row.active_to)

\* C10 witness: a week was fetched in which a recurring definition whose window
\* reaches into the week has its occurrence after activeTo, next to one emitted.
C10_Witness ==
  /\ last.op = "fetchWeek"
  /\ Len(last.events) > 0
  /\ \E r \in classes :
       /\ r.active_to # NoDate
       /\ r.active_to >= last.query.weekStart
       /\ r.active_from <= last.query.weekStart
       /\ addDays(last.query.weekStart, r.weekday - 1) > r.active_to

\* C11: for a recurring definition with weekday w and no override, in the scope
\* of the viewer, fetchWeek(weekStart) emits exactly one event, dated
\* weekStart + (w - 1) days, when that date lies inside the active window, and
\* no event otherwise.
C11_InViewerScope(r, query) ==
  /\ (query.view = "instructor" /\ query.instructorId # NoValue)
       => r.instructor_id = query.instructorId
  /\ query.view = "student" => query.studentId \in EnrolledIn(r.id)

C11_EventsOf(classId) == {i \in 1..Len(last.events) : last.events[i].id = classId}

C11_OneEventPerWeek ==
  (last.op = "fetchWeek" /\ last.outcome = "ok") =>
    \A r \in classes :
      (/\ r.schedule_mode = "recurring"
       /\ C11_InViewerScope(r, last.query)
       /\ ~\E o \in overrides : o.class_id = r.id)
      => IF /\ r.active_from <= last.query.weekStart + (r.weekday - 1)
            /\ (r.active_to = NoDate \/ last.query.weekStart + (r.weekday - 1) <= r.active_to)
         THEN /\ Cardinality(C11_EventsOf(r.id)) = 1
              /\ \A i \in C11_EventsOf(r.id) :
                    last.events[i].classDate = last.query.weekStart + (r.weekday - 1)
         ELSE C11_EventsOf(r.id) = {}

\* C11 witness: a fetched week that holds the event of one recurring definition
\* and leaves out another whose window has not begun on its date in that week.
C11_Witness ==
  /\ last.op = "fetchWeek"
  /\ last.query.view = "instructor"
  /\ last.query.instructorId = NoValue
  /\ \E r \in classes : r.weekday = 3 /\ Cardinality(C11_EventsOf(r.id)) = 1
  /\ \E r \in classes :
       /\ r.active_from > last.query.weekStart + (r.weekday - 1)
       /\ C11_EventsOf(r.id) = {}

\* C12: a cancel override keyed by (definition, date D) changes no week other
\* than the one containing D: compared with the same store without the override,
\* fetchWeek emits the same events for every other week; in the week of D it
\* leaves the events of the other definitions as they are and removes the
\* definition's event exactly when D is the date of its occurrence.
C12_AllView(weekStart) ==
  [weekStart |-> weekStart, view |-> "instructor", instructorId |-> NoValue, studentId |-> NoValue]

C12_EventsWithout(o, weekStart) ==
  SortEvents(AllRowEvents(WeekClassRows(C12_AllView(weekStart), weekStart, weekStart + 6, {},
                                        KeyOrder),
                          weekStart,
                          {x \in overrides \ {o} : /\ x.override_date >= weekStart
                                                   /\ x.override_date <= weekStart + 6},
                          C12_AllView(weekStart)))

C12_Others(events, classId) == SelectSeq(events, LAMBDA e : e.id # classId)

C12_CancelEffect(o, weekStart) ==
  IF o.override_date < weekStart \/ o.override_date > weekStart + 6
  THEN AllEvents(weekStart) = C12_EventsWithout(o, weekStart)
  ELSE /\ C12_Others(AllEvents(weekStart), o.class_id)
            = C12_Others(C12_EventsWithout(o, weekStart), o.class_id)
       /\ IF o.override_date = weekStart + (ClassById(o.class_id).weekday - 1)
          THEN C12_Others(AllEvents(weekStart), o.class_id) = AllEvents(weekStart)
          ELSE AllEvents(weekStart) = C12_EventsWithout(o, weekStart)

C12_CancelOnlyItsDate ==
  \A o \in overrides :
    o.action = "cancel" => \A weekStart \in WeekStarts : C12_CancelEffect(o, weekStart)

\* C12 witness: a definition cancelled on its date in the second week is still
\* in the first week and gone from the second.
C12_Witness ==
  \E o \in overrides :
    /\ o.action = "cancel"
    /\ o.override_date = 8
    /\ ClassById(o.class_id).weekday = 1
    /\ \E i \in 1..Len(AllEvents(1)) : AllEvents(1)[i].id = o.class_id
    /\ ~\E i \in 1..Len(AllEvents(8)) : AllEvents(8)[i].id = o.class_id
    /\ \E i \in 1..Len(C12_EventsWithout(o, 8)) : C12_EventsWithout(o, 8)[i].id = o.class_id

\* C13: for an instructor viewer I, an occurrence of the requested week that is
\* inside its active window and not cancelled is in the result of fetchWeek if
\* and only if its effective (post-override) instructor is I.
C13_OverridesAt(r, date) == {o \in overrides : o.class_id = r.id /\ o.override_date = date}

C13_Cancelled(r, date) == \E o \in C13_OverridesAt(r, date) : o.action = "cancel"

C13_EffectiveInstructor(r, date) ==
  IF \E o \in C13_OverridesAt(r, date) : o.override_instructor_id # NoValue
  THEN (CHOOSE o \in C13_OverridesAt(r, date) : o.override_instructor_id # NoValue).override_instructor_id
  ELSE r.instructor_id

C13_Occurs(r, date) ==
  /\ r.schedule_mode = "recurring"
  /\ r.active_from <= date
  /\ (r.active_to = NoDate \/ date <= r.active_to)
  /\ ~C13_Cancelled(r, date)

C13_EffectiveInstructorDecides ==
  (/\ last.op = "fetchWeek"
   /\ last.query.view = "instructor"
   /\ last.query.instructorId # NoValue)
  => \A r \in classes :
       C13_Occurs(r, last.query.weekStart + (r.weekday - 1))
       => ((\E i \in 1..Len(last.events) : last.events[i].id = r.id)
           <=> C13_EffectiveInstructor(r, last.query.weekStart + (r.weekday - 1))
                 = last.query.instructorId)

\* C14: resolve(candidateType, existingType) is the rule stored for
\* (candidateType, existingType) if there is one, else the rule stored for
\* (existingType, candidateType) if there is one, else compatible with reason
\* "same class type" when the types are equal, else incompatible; so when only
\* rule(X, Y) = compatible is stored, resolve(Y, X) is compatible.
C14_Stored(a, b) == {r \in compatibility : r.class_type_a = a /\ r.class_type_b = b}

C14_RuleOf(rows) ==
  [isCompatible |-> (CHOOSE r \in rows : TRUE).is_compatible,
   reason |-> IF (CHOOSE r \in rows : TRUE).reason = NoReason
              THEN <<"Incompatible class type overlap">>
              ELSE (CHOOSE r \in rows : TRUE).reason]

C14_Reference(rule, candidateType, existingType) ==
  IF C14_Stored(candidateType, existingType) # {}
  THEN rule = C14_RuleOf(C14_Stored(candidateType, existingType))
  ELSE IF C14_Stored(existingType, candidateType) # {}
  THEN rule = C14_RuleOf(C14_Stored(existingType, candidateType))
  ELSE IF candidateType = existingType
  THEN rule = [isCompatible |-> TRUE, reason |-> <<"same class type">>]
  ELSE ~rule.isCompatible

C14_ResolveIsReferenceLookup ==
  last.op = "resolve" =>
    /\ C14_Reference(last.rule, last.types[1], last.types[2])
    /\ (/\ C14_Stored(last.types[1], last.types[2]) = {}
        /\ \E r \in C14_Stored(last.types[2], last.types[1]) : r.is_compatible)
       => last.rule.isCompatible

\* C14 witness: only rule(X, Y) = compatible is stored and resolve(Y, X) has
\* answered compatible.
C14_Witness ==
  /\ last.op = "resolve"
  /\ last.types = <<"REGULAR_MULTI", "ONE_TO_ONE">>
  /\ compatibility = {[class_type_a |-> "ONE_TO_ONE", class_type_b |-> "REGULAR_MULTI",
                       is_compatible |-> TRUE,
                       reason |-> <<"rule", "ONE_TO_ONE", "REGULAR_MULTI">>]}
  /\ last.rule.isCompatible

\* C15: under the seeded rules, a recurring ONE_TO_ONE candidate whose time range
\* partially overlaps exactly one stored recurring definition of the same
\* instructor and weekday that is active on the reference date, that definition
\* being ONE_TO_ONE, gets hasConflict = TRUE and exactly one conflict entry,
\* naming that definition.
C15_Minutes(sqlTime) == sqlTime[1] * 60 + sqlTime[2]

C15_Overlapped(payload, excludeClassId) ==
  {r \in classes :
     /\ r.id # excludeClassId
     /\ r.schedule_mode = "recurring"
     /\ r.instructor_id = payload.instructorId
     /\ r.weekday = payload.weekday
     /\ r.active_from <= payload.activeFrom
     /\ (r.active_to = NoDate \/ r.active_to >= payload.activeFrom)
     /\ C15_Minutes(payload.startTime) < C15_Minutes(r.end_time)
     /\ C15_Minutes(payload.endTime) > C15_Minutes(r.start_time)}

C15_Partial(payload, r) ==
  /\ C15_Minutes(payload.startTime) # C15_Minutes(r.start_time)
  /\ C15_Minutes(payload.endTime) # C15_Minutes(r.end_time)

C15_PartialOverlapOneEntry ==
  (/\ last.op = "check"
   /\ compatibility = SeedCompatibility
   /\ last.payload.scheduleMode = "recurring"
   /\ last.payload.classTypeCode = "ONE_TO_ONE")
  => \A r \in classes :
       (/\ C15_Overlapped(last.payload, last.exclude) = {r}
        /\ r.class_type_code = "ONE_TO_ONE"
        /\ C15_Partial(last.payload, r))
       => /\ last.conflict.hasConflict
          /\ Len(last.conflict.conflicts) = 1
          /\ last.conflict.conflicts[1].classId = r.id

\* C15 witness: 10:30-11:30 checked against a stored 10:00-11:00 ONE_TO_ONE
\* definition of the same instructor, with a second definition that does not
\* overlap it.
C15_Witness ==
  /\ last.op = "check"
  /\ last.payload.classTypeCode = "ONE_TO_ONE"
  /\ last.payload.startTime = <<10, 30>>
  /\ last.exclude = NoId
  /\ Cardinality(classes) = 2
  /\ \E r \in classes :
       /\ C15_Overlapped(last.payload, NoId) = {r}
       /\ r.class_type_code = "ONE_TO_ONE"
       /\ r.start_time = <<10, 0, 0>>
       /\ last.conflict.conflicts = <<[classId |-> r.id, reason |-> last.conflict.conflicts[1].reason]>>

\* C16: overlaps(startA, endA, startB, endB) is true exactly when startA < endB
\* and endA > startB in minutes of the day, which for two proper ranges means
\* that the half-open ranges share a minute; ranges that only touch at a
\* boundary do not overlap and a range strictly containing another overlaps it.
C16_MinuteOfDay(time) == 60 * time[1] + time[2]

C16_Proper(startA, endA, startB, endB) == startA < endA /\ startB < endB

C16_ShareAMinute(startA, endA, startB, endB) ==
  \E m \in 0..1439 : startA <= m /\ m < endA /\ startB <= m /\ m < endB

C16_HalfOpen(result, startA, endA, startB, endB) ==
  /\ result <=> (startA < endB /\ endA > startB)
  /\ C16_Proper(startA, endA, startB, endB)
       => /\ result <=> C16_ShareAMinute(startA, endA, startB, endB)
          /\ (endA = startB \/ endB = startA) => ~result
          /\ (startA < startB /\ endB < endA) => result

C16_OverlapIsHalfOpen ==
  last.op = "overlap" =>
    C16_HalfOpen(last.overlap,
                 C16_MinuteOfDay(last.ranges[1]), C16_MinuteOfDay(last.ranges[2]),
                 C16_MinuteOfDay(last.ranges[3]), C16_MinuteOfDay(last.ranges[4]))

\* C16 witness: 10:00-11:00 against 11:00-12:00 answered false.
C16_Witness ==
  /\ last.op = "overlap"
  /\ last.ranges = <<<<10, 0>>, <<11, 0>>, <<11, 0>>, <<12, 0>>>>
  /\ ~last.overlap

\* C17: after a successful updateStatus(classId, s, actor, reason) the stored
\* status of the definition is s and exactly one status-log entry
\* (classId, s, actor, reason, or "manual-update" when no reason is given) has
\* been appended; success is never reported with only one of the two writes.
C17_Entry(call) ==
  [class_id |-> call.classId, status |-> call.requested, changed_by |-> Actor,
   reason |-> IF call.reason = NoReason THEN <<"manual-update">> ELSE call.reason]

C17_StatusAndLogTogether ==
  [][(last'.op = "updateStatus" /\ last'.outcome = "ok")
     => /\ \E r \in classes' : r.id = last'.classId /\ r.progress_status = last'.requested
        /\ statusLogs' = Append(statusLogs, C17_Entry(last'))]_vars

\* C17 witness: a status update without a reason has succeeded on a class that
\* was planned; the class is confirmed and the log ends with the default reason.
C17_Witness ==
  /\ last.op = "updateStatus"
  /\ last.outcome = "ok"
  /\ last.requested = "confirmed"
  /\ last.reason = NoReason
  /\ \E r \in classes : r.id = last.classId /\ r.progress_status = "confirmed"
  /\ statusLogs[Len(statusLogs)].reason = <<"manual-update">>

\* C18: when updateStatus or moveSlot ends in a hard failure the store is as
\* before the call: the definitions and the status log are unchanged.
C18_FailureWritesNothing ==
  [][(last'.op \in {"updateStatus", "move"} /\ last'.outcome = "thrown")
     => (classes' = classes /\ statusLogs' = statusLogs)]_vars

\* C19: checkConflict, createWithEnrollment and importRow called with an invalid
\* payload (a required field missing, end time not later than start time,
\* recurring without a weekday in 1..7, one_off without a date, or no student)
\* fail with a validation error before any read or write of the store and
\* return no conflict result.
C19_Invalid(p) ==
  \/ p.instructorId = NoValue
  \/ p.subjectCode = NoValue
  \/ p.classTypeCode = NoValue
  \/ p.note = NoValue
  \/ p.startTime = NoTime
  \/ p.endTime = NoTime
  \/ 60 * p.endTime[1] + p.endTime[2] <= 60 * p.startTime[1] + p.startTime[2]
  \/ p.scheduleMode = "recurring" /\ p.weekday \notin 1..7
  \/ p.scheduleMode = "one_off" /\ p.classDate = NoDate
  \/ p.studentIds = <<>>

C19_InvalidFailsFirst ==
  [][(last'.op \in {"check", "create", "import"} /\ C19_Invalid(last'.payload))
     => /\ last'.outcome = "thrown"
        /\ last'.error = "validation"
        /\ last'.calls = <<>>
        /\ last'.conflict = NoConflict
        /\ store' = store]_vars

\* C19 witness: with a definition stored, an import row whose end time equals
\* its start time was rejected by validation.
C19_Witness ==
  /\ last.op = "import"
  /\ last.outcome = "thrown"
  /\ last.error = "validation"
  /\ last.payload.startTime = last.payload.endTime
  /\ last.payload.startTime # NoTime
  /\ classes # {}

\* C20: in every createWithEnrollment, moveSlot and importRow call, no write to
\* the store comes before a completed run of the conflict checker.
C20_Writes ==
  {"classes.insert", "classes.update", "classes.delete", "class_enrollments.insert",
   "class_status_logs.insert"}

C20_CheckBeforeFirstWrite ==
  last.op \in {"create", "move", "import"}
  => \A i \in 1..Len(last.calls) :
       last.calls[i] \in C20_Writes => \E j \in 1..(i - 1) : last.calls[j] = "conflict-check"

\* C24: fetchWeek is read-only and deterministic: it leaves definitions,
\* enrollments, overrides and status log unchanged, and two calls with the same
\* arguments on the same store return the same weekStart, weekEnd and the same
\* sequence of events.  The determinism half, as a state predicate: whatever
\* order the class queries return their rows in, the events are the ones the
\* last call returned.
C24_FetchWeekDeterministic ==
  (last.op = "fetchWeek" /\ last.outcome = "ok")
    => \A rowOrder \in RowOrders :
         fetchWeeklySchedule(last.query, rowOrder).events = last.events

\* The read-only half.
C24_FetchWeekReadOnly ==
  [][last'.op = "fetchWeek" => store' = store]_vars

\* C25: for a student viewer, every event returned by fetchWeek belongs to a
\* definition in which that student is enrolled, and a student with no
\* enrollment gets an empty event list for every week.
C25_StudentSeesOwnClassesOnly ==
  (last.op = "fetchWeek" /\ last.query.view = "student" /\ last.outcome = "ok")
    => /\ \A i \in 1..Len(last.events) :
            \E e \in enrollments : /\ e.class_id = last.events[i].id
                                   /\ e.student_id = last.query.studentId
       /\ (~\E e \in enrollments : e.student_id = last.query.studentId)
            => last.events = <<>>

\* A student's week shows their class while another student's class takes place
\* in the same week.
C25_Witness ==
  /\ last.op = "fetchWeek"
  /\ last.query.view = "student"
  /\ Len(last.events) = 1
  /\ \E r \in classes :
       /\ ~\E e \in enrollments : e.class_id = r.id /\ e.student_id = last.query.studentId
       /\ \E i \in 1..Len(AllEvents(last.query.weekStart)) :
            AllEvents(last.query.weekStart)[i].id = r.id

\* C26: in every state reachable by createWithEnrollment, importRow,
\* updateStatus and moveSlot, each stored definition has exactly one of weekday
\* and date set, matching its mode: recurring definitions have a weekday and no
\* date, one_off definitions have a date and no weekday.
C26_ModeFixesWeekdayOrDate ==
  \A r \in classes :
    IF r.schedule_mode = "recurring"
    THEN r.weekday # NoWeekday /\ r.class_date = NoDate
    ELSE r.schedule_mode = "one_off" /\ r.class_date # NoDate /\ r.weekday = NoWeekday

\* Definitions of both modes are stored, created from rows that carried a weekday
\* and a date, and a move to a null weekday has just been refused.
C26_Witness ==
  /\ \E r \in classes : r.schedule_mode = "recurring"
  /\ \E r \in classes : r.schedule_mode = "one_off"
  /\ last.op = "move"
  /\ last.outcome = "thrown"
  /\ last.target.weekday = NoWeekday
  /\ \E r \in classes : r.id = last.classId /\ r.schedule_mode = "recurring"

\* C28: when importRow matches an existing recurring definition by exact
\* signature and the row carries an activeFrom, the definition's active window
\* after the call contains the row's activeFrom and is a superset of its window
\* before the call; for a one_off match the active window is unchanged.
C28_Matched(call) ==
  /\ call.op = "import"
  /\ call.outcome = "ok"
  /\ call.status \in {"existing", "enrolled", "conflict"}
  /\ call.classId # NoId

C28_WindowWidened(old, new, activeFrom) ==
  IF old.schedule_mode = "recurring" /\ activeFrom # NoDate
  THEN /\ new.active_from <= activeFrom
       /\ (new.active_to = NoDate \/ new.active_to >= activeFrom)
       /\ new.active_from <= old.active_from
       /\ (new.active_to = NoDate \/ (old.active_to # NoDate /\ new.active_to >= old.active_to))
  ELSE new.active_from = old.active_from /\ new.active_to = old.active_to

C28_ImportWidensWindow ==
  [][C28_Matched(last')
       => C28_WindowWidened(CHOOSE r \in classes : r.id = last'.classId,
                            CHOOSE r \in classes' : r.id = last'.classId,
                            last'.payload.activeFrom)]_vars

\* A row that starts after the matched class was closed has reopened it.
C28_Witness ==
  /\ C28_Matched(last)
  /\ last.payload.scheduleMode = "recurring"
  /\ \E i \in 1..Len(last.calls) : last.calls[i] = "classes.update"
  /\ \E r \in classes : /\ r.id = last.classId
                         /\ r.active_from < last.payload.activeFrom
                         /\ r.active_to = NoDate

\* C29: a successful moveSlot stores an end time equal to the requested start
\* time plus max(30, old end - old start) minutes, so the duration of a
\* definition of at least 30 minutes is preserved exactly and the stored end
\* stays later than the stored start.
C29_Minutes(sqlTime) == sqlTime[1] * 60 + sqlTime[2]

C29_EndFollowsStart(old, new, target) ==
  /\ new.start_time = <<target.startTime[1], target.startTime[2], 0>>
  /\ C29_Minutes(new.end_time)
       = C29_Minutes(new.start_time)
           + (IF C29_Minutes(old.end_time) - C29_Minutes(old.start_time) >= 30
              THEN C29_Minutes(old.end_time) - C29_Minutes(old.start_time) ELSE 30)
  /\ new.end_time[2] \in 0..59
  /\ new.end_time[3] = 0
  /\ C29_Minutes(new.end_time) > C29_Minutes(new.start_time)

C29_MoveKeepsDuration ==
  [][(last'.op = "move" /\ last'.moved)
       => C29_EndFollowsStart(CHOOSE r \in classes : r.id = last'.classId,
                              CHOOSE r \in classes' : r.id = last'.classId,
                              last'.target)]_vars

\* A 15-minute class has been moved and now lasts 30 minutes.
C29_Witness ==
  /\ last.op = "move"
  /\ last.moved
  /\ \E r \in classes : /\ r.id = last.classId
                         /\ r.start_time = <<10, 30, 0>>
                         /\ r.end_time = <<11, 0, 0>>

\* C30: a successful moveSlot sets weekday to the target weekday for a recurring
\* definition and sets date to weekStart + (weekday - 1) days for a one_off
\* definition, appends one StatusLogEntry, and leaves the definition's
\* instructor, subject, class type, status, active window and enrollments
\* unchanged.
C30_MovedRow(old, new, target) ==
  /\ IF old.schedule_mode = "recurring"
     THEN new.weekday = target.weekday /\ new.class_date = old.class_date
     ELSE new.class_date = target.weekStart + (target.weekday - 1) /\ new.weekday = old.weekday
  /\ new.schedule_mode = old.schedule_mode
  /\ new.instructor_id = old.instructor_id
  /\ new.subject_code = old.subject_code
  /\ new.class_type_code = old.class_type_code
  /\ new.progress_status = old.progress_status
  /\ new.active_from = old.active_from
  /\ new.active_to = old.active_to

C30_MoveFrame ==
  [][(last'.op = "move" /\ last'.moved)
       => /\ C30_MovedRow(CHOOSE r \in classes : r.id = last'.classId,
                          CHOOSE r \in classes' : r.id = last'.classId,
                          last'.target)
          /\ {r \in classes' : r.id # last'.classId} = {r \in classes : r.id # last'.classId}
          /\ Len(statusLogs') = Len(statusLogs) + 1
          /\ SubSeq(statusLogs', 1, Len(statusLogs)) = statusLogs
          /\ statusLogs'[Len(statusLogs')].class_id = last'.classId
          /\ enrollments' = enrollments
          /\ overrides' = overrides]_vars

\* A one_off class with a student has been moved to another date.
C30_Witness ==
  /\ last.op = "move"
  /\ last.moved
  /\ \E r \in classes : /\ r.id = last.classId
                         /\ r.schedule_mode = "one_off"
                         /\ r.class_date = 10
                         /\ \E e \in enrollments : e.class_id = r.id

\* C21: the check-then-write of createWithEnrollment is vulnerable to a
\* time-of-check/time-of-use race: with two createWithEnrollment requests
\* interleaved for the same instructor, overlapping slot and mutually incompatible
\* class types, an interleaving exists in which both pass the conflict check and
\* both definitions are written (C21_Witness).  The property: a definition is
\* written next to one its own conflict check would report only by a request whose
\* check did not read that definition as it now is.
C21_WouldReport(new, old) ==
  /\ old.id # new.id
  /\ old.instructor_id = new.instructor_id
  /\ old.schedule_mode = "recurring"
  /\ new.schedule_mode = "recurring"
  /\ old.weekday = new.weekday
  /\ old.active_from <= new.active_from
  /\ (old.active_to = NoDate \/ old.active_to >= new.active_from)
  /\ timeToMinutes(fromSqlTime(old.start_time)) < timeToMinutes(fromSqlTime(new.end_time))
  /\ timeToMinutes(fromSqlTime(old.end_time)) > timeToMinutes(fromSqlTime(new.start_time))
  /\ Incompatible(new.class_type_code, old.class_type_code)

C21_WrittenBy(q, new) ==
  /\ inflight[q].pc = "insertClass"
  /\ inflight'[q].pc = "insertEnrollments"
  /\ inflight'[q].classId = new.id

C21_OnlyAStaleCheckDoubleBooks ==
  [][\A new \in classes' : \A old \in classes' :
       (new.id \notin {r.id : r \in classes} /\ C21_WouldReport(new, old))
         => \E q \in {1, 2} : C21_WrittenBy(q, new) /\ old \notin inflight[q].seen]_vars

\* Two creates that ran side by side have both returned a class, and each class
\* is one the other's check reports.
C21_Witness ==
  /\ \A q \in {1, 2} : inflight[q].op = "create" /\ inflight[q].outcome = "created"
  /\ \E a \in classes : \E b \in classes : C21_WouldReport(a, b) /\ C21_WouldReport(b, a)

\* C22: the capacity-aware enroll of importRow is vulnerable to a
\* time-of-check/time-of-use race: with two importRow requests for different
\* students interleaved on a matched class that has one free seat, an interleaving
\* exists in which both read a count below capacity and both insert, leaving the
\* class with more enrollments than its class type allows (C22_Witness).  The
\* property: a class goes over its capacity only by the insert of a request that
\* has not read the enrollments the class now has.
C22_Over(rows, classRow) ==
  Cardinality({e \in rows : e.class_id = classRow.id}) > MaxStudentsOf(classRow)

C22_StaleInsert(q, classId) ==
  /\ inflight[q].classId = classId
  /\ inflight'[q].pc = "done"
  /\ \/ /\ inflight[q].pc = "insertEnrollment"
        /\ inflight[q].seen # {e \in enrollments : e.class_id = classId}
     \/ /\ inflight[q].pc = "insertEnrollments"
        /\ {e \in enrollments : e.class_id = classId} # {}

C22_OnlyAStaleCountOverbooks ==
  [][\A r \in classes' :
       (C22_Over(enrollments', r) /\ ~C22_Over(enrollments, r))
         => \E q \in {1, 2} : C22_StaleInsert(q, r.id)]_vars

\* Two imports that ran side by side have both enrolled their student, and the
\* class holds three students where its type allows two.
C22_Witness ==
  /\ \A q \in {1, 2} : inflight[q].op = "import" /\ inflight[q].outcome = "enrolled"
  /\ \E r \in classes : /\ MaxStudentsOf(r) = 2
                         /\ EnrolledIn(r.id) = {"s1", "s2", "s3"}

\* C23: in every reachable state, including every interleaving of concurrent
\* createWithEnrollment and importRow requests, at most one enrollment row exists
\* per (classId, studentId); a request whose insert would create a duplicate ends
\* in a hard failure instead of a second row.
C23_Unique(rows) ==
  \A e1 \in rows : \A e2 \in rows :
    (e1.class_id = e2.class_id /\ e1.student_id = e2.student_id) => e1 = e2

C23_DuplicateInsert(q, pc) ==
  /\ inflight[q].pc = pc
  /\ inflight'[q].pc # pc
  /\ \E e \in enrollments : /\ e.class_id = inflight[q].classId
                             /\ e.student_id \in Range(inflight[q].payload.studentIds)

C23_EnrollmentUnique ==
  [][/\ C23_Unique(enrollments')
     /\ \A q \in {1, 2} :
          /\ C23_DuplicateInsert(q, "insertEnrollment")
               => (inflight'[q].outcome = "unique violation" /\ enrollments' = enrollments)
          /\ C23_DuplicateInsert(q, "insertEnrollments")
               => (inflight'[q].pc = "delete" /\ enrollments' = enrollments)]_vars

\* Of two imports of one student that ran side by side, one enrolled the student
\* and the other failed at its insert.
C23_Witness ==
  /\ \E q \in {1, 2} : inflight[q].op = "import" /\ inflight[q].outcome = "unique violation"
  /\ \E q \in {1, 2} : inflight[q].op = "import" /\ inflight[q].outcome = "enrolled"
  /\ enrollments # {}

\* C27: the status log is append-only across every operation of the engine: once
\* a StatusLogEntry exists it is never modified or removed by
\* createWithEnrollment (including its compensating delete), importRow,
\* updateStatus or moveSlot, and one entry is written when a definition is
\* created.
C27_StatusLogAppendOnly ==
  [][/\ Len(statusLogs') >= Len(statusLogs)
     /\ SubSeq(statusLogs', 1, Len(statusLogs)) = statusLogs
     /\ \A r \in classes' :
          r.id \notin {x.id : x \in classes}
            => /\ Len(statusLogs') = Len(statusLogs) + 1
               /\ statusLogs'[Len(statusLogs')].class_id = r.id]_vars

\* C31: moveSlot's conflict check sees exactly the occurrences of the target
\* week that are materialized for the moved definition's instructor on the target
\* weekday: an occurrence cancelled by an override of that week never blocks the
\* move, and an occurrence retimed by an override is tested at its overridden
\* window, not at its stored one.
C31_OverridesAt(r, date) == {o \in overrides : o.class_id = r.id /\ o.override_date = date}

C31_Date(r, target) ==
  IF r.schedule_mode = "recurring" THEN target.weekStart + (r.weekday - 1) ELSE r.class_date

C31_Start(r, date) ==
  IF \E o \in C31_OverridesAt(r, date) : o.override_start_time # NoTime
  THEN (CHOOSE o \in C31_OverridesAt(r, date) : o.override_start_time # NoTime).override_start_time
  ELSE r.start_time

C31_End(r, date) ==
  IF \E o \in C31_OverridesAt(r, date) : o.override_end_time # NoTime
  THEN (CHOOSE o \in C31_OverridesAt(r, date) : o.override_end_time # NoTime).override_end_time
  ELSE r.end_time

C31_Minutes(time) == time[1] * 60 + time[2]

C31_Length(c) ==
  IF C31_Minutes(c.end_time) - C31_Minutes(c.start_time) > 30
  THEN C31_Minutes(c.end_time) - C31_Minutes(c.start_time) ELSE 30

C31_Blocks(r, c, target) ==
  /\ r.id # c.id
  /\ r.instructor_id = c.instructor_id
  /\ C31_Date(r, target) \in target.weekStart..(target.weekStart + 6)
  /\ r.schedule_mode = "recurring" =>
       (r.active_from <= C31_Date(r, target)
        /\ (r.active_to = NoDate \/ C31_Date(r, target) <= r.active_to))
  /\ ~\E o \in C31_OverridesAt(r, C31_Date(r, target)) :
        \/ o.action = "cancel"
        \/ (o.override_instructor_id # NoValue /\ o.override_instructor_id # c.instructor_id)
  /\ (IF C31_Date(r, target) % 7 = 0 THEN 7 ELSE C31_Date(r, target) % 7) = target.weekday
  /\ C31_Minutes(target.startTime) < C31_Minutes(C31_End(r, C31_Date(r, target)))
  /\ C31_Minutes(C31_Start(r, C31_Date(r, target)))
       < C31_Minutes(target.startTime) + C31_Length(c)
  /\ Incompatible(c.class_type_code, r.class_type_code)

C31_MoveChecksMaterializedWeek ==
  [][(/\ last'.op = "move"
      /\ last'.outcome = "ok"
      /\ \E r \in classes : r.id = last'.classId)
     => ({last'.conflict.conflicts[i].classId : i \in 1..Len(last'.conflict.conflicts)}
           = {r.id : r \in {x \in classes :
                              C31_Blocks(x, ClassById(last'.classId), last'.target)}})]_vars

\* C31 witness: a move refused because of an occurrence whose override of the
\* target week puts it at 12:00-13:00, while its stored 10:00-11:00 or 11:00-12:00
\* window does not meet the 12:30 target.
C31_Witness ==
  /\ last.op = "move"
  /\ last.outcome = "ok"
  /\ ~last.moved
  /\ last.target.startTime = <<12, 30>>
  /\ \E i \in 1..Len(last.conflict.conflicts) :
       \E o \in overrides :
         /\ o.class_id = last.conflict.conflicts[i].classId
         /\ o.override_date = 8
         /\ o.override_start_time = <<12, 0, 0>>
         /\ o.override_end_time = <<13, 0, 0>>

\* C32: a definition never conflicts with itself: checkConflict called with
\* excludeClassId and moveSlot's conflict check never report the checked
\* definition's own id, and a move to a slot that overlaps only the definition's
\* own current slot succeeds.
C32_OwnSlot(c, target) ==
  /\ IF c.schedule_mode = "recurring" THEN c.weekday = target.weekday
     ELSE c.class_date = target.weekStart + (target.weekday - 1)
  /\ rangesOverlap(target.startTime, MoveEndTime(c, target),
                   fromSqlTime(c.start_time), fromSqlTime(c.end_time))

C32_OthersOverlap(c, target) ==
  \E e \in Range(fetchWeeklySchedule([weekStart |-> target.weekStart, view |-> "instructor",
                                      instructorId |-> c.instructor_id,
                                      studentId |-> NoValue], KeyOrder).events) :
    /\ e.id # c.id
    /\ e.weekday = target.weekday
    /\ rangesOverlap(target.startTime, MoveEndTime(c, target), e.startTime, e.endTime)

C32_NeverConflictsWithItself ==
  [][/\ (last'.op = "check" /\ last'.exclude # NoId)
          => \A i \in 1..Len(last'.conflict.conflicts) :
               last'.conflict.conflicts[i].classId # last'.exclude
     /\ (last'.op = "move" /\ \E r \in classes : r.id = last'.classId)
          => /\ \A i \in 1..Len(last'.conflict.conflicts) :
                  last'.conflict.conflicts[i].classId # last'.classId
             /\ (/\ C32_OwnSlot(ClassById(last'.classId), last'.target)
                 /\ ~C32_OthersOverlap(ClassById(last'.classId), last'.target))
                  => (last'.outcome = "ok" /\ last'.moved)]_vars

\* C32 witness: the only class of the store, created at 10:00 or 11:00 on
\* Mondays (one log entry) and moved once (a second entry) to Monday 10:30, a
\* window that overlaps the slot it had.
C32_Witness ==
  /\ last.op = "move"
  /\ last.moved
  /\ last.target.weekday = 1
  /\ Cardinality(classes) = 1
  /\ Len(statusLogs) = 2
  /\ \A r \in classes : r.schedule_mode = "recurring" /\ r.start_time = <<10, 30, 0>>

\* C33: for a one_off candidate on date D the overlap set is exactly the
\* instructor's one_off definitions dated D together with the instructor's
\* recurring definitions whose weekday is the weekday of D and whose active
\* window covers D, restricted to those whose time range overlaps the
\* candidate's.  Every class type here is incompatible with itself, so the
\* reported conflicts list the overlap set.
C33_Minutes(time) == time[1] * 60 + time[2]

C33_TimesMeet(payload, r) ==
  /\ C33_Minutes(payload.startTime) < C33_Minutes(r.end_time)
  /\ C33_Minutes(r.start_time) < C33_Minutes(payload.endTime)

C33_Reported == {last.conflict.conflicts[i].classId : i \in 1..Len(last.conflict.conflicts)}

C33_WeekdayOf(date) == CHOOSE wd \in 1..7 : (date - wd) % 7 = 0

C33_OneOffOverlapSet ==
  (last.op = "check" /\ last.outcome = "ok" /\ last.payload.scheduleMode = "one_off")
  => /\ C33_Reported
          = {r.id : r \in {x \in classes :
               /\ x.instructor_id = last.payload.instructorId
               /\ C33_TimesMeet(last.payload, x)
               /\ Incompatible(last.payload.classTypeCode, x.class_type_code)
               /\ \/ (x.schedule_mode = "one_off" /\ x.class_date = last.payload.classDate)
                  \/ /\ x.schedule_mode = "recurring"
                     /\ x.weekday = C33_WeekdayOf(last.payload.classDate)
                     /\ x.active_from <= last.payload.classDate
                     /\ (x.active_to = NoDate \/ last.payload.classDate <= x.active_to)}}
     /\ Len(last.conflict.conflicts) = Cardinality(C33_Reported)

\* C33 witness: a one_off candidate whose reported overlap set holds a one_off
\* class of its date, while a recurring class of the date's weekday that was
\* closed before the date is left out.
C33_Witness ==
  /\ last.op = "check"
  /\ last.payload.scheduleMode = "one_off"
  /\ \E r \in classes : r.id \in C33_Reported /\ r.schedule_mode = "one_off"
  /\ \E r \in classes :
       /\ r.schedule_mode = "recurring"
       /\ r.instructor_id = last.payload.instructorId
       /\ r.weekday = C33_WeekdayOf(last.payload.classDate)
       /\ r.active_to # NoDate
       /\ r.active_to < last.payload.classDate
       /\ r.id \notin C33_Reported

\* C34: for a recurring candidate the overlap set is exactly the instructor's
\* recurring definitions on the same weekday whose active window covers the
\* reference date (the candidate's activeFrom, or today when it has none) and
\* whose time range overlaps the candidate's; one_off definitions and recurring
\* definitions not active on the reference date are never in it.
C34_ReferenceDate == IF last.payload.activeFrom # NoDate THEN last.payload.activeFrom ELSE Today

C34_Reported == {last.conflict.conflicts[i].classId : i \in 1..Len(last.conflict.conflicts)}

C34_RecurringOverlapSet ==
  (last.op = "check" /\ last.outcome = "ok" /\ last.payload.scheduleMode = "recurring")
  => /\ C34_Reported
          = {r.id : r \in {x \in classes :
               /\ x.instructor_id = last.payload.instructorId
               /\ x.schedule_mode = "recurring"
               /\ x.weekday = last.payload.weekday
               /\ x.active_from <= C34_ReferenceDate
               /\ (x.active_to = NoDate \/ C34_ReferenceDate <= x.active_to)
               /\ x.start_time[1] * 60 + x.start_time[2]
                    < last.payload.endTime[1] * 60 + last.payload.endTime[2]
               /\ last.payload.startTime[1] * 60 + last.payload.startTime[2]
                    < x.end_time[1] * 60 + x.end_time[2]
               /\ Incompatible(last.payload.classTypeCode, x.class_type_code)}}
     /\ Len(last.conflict.conflicts) = Cardinality(C34_Reported)
     /\ \A r \in classes :
          (\/ r.schedule_mode = "one_off"
           \/ C34_ReferenceDate < r.active_from
           \/ (r.active_to # NoDate /\ r.active_to < C34_ReferenceDate))
          => r.id \notin C34_Reported

\* C34 witness: a recurring candidate without an activeFrom, checked against
\* today: a class of its weekday is reported, and the store also holds a
\* one_off class on a date of that weekday at the same time, not reported.
C34_Witness ==
  /\ last.op = "check"
  /\ last.payload.scheduleMode = "recurring"
  /\ last.payload.activeFrom = NoDate
  /\ C34_Reported # {}
  /\ \E r \in classes :
       /\ r.schedule_mode = "one_off"
       /\ r.instructor_id = last.payload.instructorId
       /\ (r.class_date - last.payload.weekday) % 7 = 0
       /\ r.start_time = <<last.payload.startTime[1], last.payload.startTime[2], 0>>
       /\ r.id \notin C34_Reported

\* C35: for an occurrence with a non-cancel override, the materialized event's
\* instructor, start time, end time and status each equal the override's value
\* when the override carries one, and the definition's stored value otherwise;
\* an override never changes a stored definition and never adds one (every
\* event belongs to a stored definition, one event per definition and week, and
\* neither writing an override nor materializing a week touches classes).
C35_OverridesAt(e) == {o \in overrides : o.class_id = e.id /\ o.override_date = e.classDate}

C35_EventOfOverride(e, r, o) ==
  /\ o.action # "cancel"
  /\ e.instructorId = IF o.override_instructor_id # NoValue THEN o.override_instructor_id
                      ELSE r.instructor_id
  /\ e.startTime = IF o.override_start_time # NoTime
                   THEN <<o.override_start_time[1], o.override_start_time[2]>>
                   ELSE <<r.start_time[1], r.start_time[2]>>
  /\ e.endTime = IF o.override_end_time # NoTime
                 THEN <<o.override_end_time[1], o.override_end_time[2]>>
                 ELSE <<r.end_time[1], r.end_time[2]>>
  /\ e.progressStatus = IF o.override_status # NoValue THEN o.override_status
                        ELSE r.progress_status

C35_Events ==
  /\ \A i \in 1..Len(last.events) :
       /\ \E r \in classes : r.id = last.events[i].id
       /\ \A o \in C35_OverridesAt(last.events[i]) :
            C35_EventOfOverride(last.events[i], ClassById(last.events[i].id), o)
  /\ \A i, j \in 1..Len(last.events) : last.events[i].id = last.events[j].id => i = j

C35_OverrideSubstitutesPerField ==
  [][/\ last'.op = "fetchWeek" => (C35_Events' /\ classes' = classes /\ overrides' = overrides)
     /\ overrides' # overrides => classes' = classes]_vars

\* C35 witness: a materialized week with an event whose override carries a
\* start time and no end time: it starts at the override's 12:00 and ends at
\* the definition's stored end time.
C35_Witness ==
  /\ last.op = "fetchWeek"
  /\ \E i \in 1..Len(last.events) :
       \E o \in C35_OverridesAt(last.events[i]) :
         /\ o.action = "reschedule"
         /\ o.override_start_time = <<12, 0, 0>>
         /\ o.override_end_time = NoTime
         /\ last.events[i].startTime = <<12, 0>>
         /\ last.events[i].endTime \in {<<11, 0>>, <<11, 30>>, <<12, 0>>}

\* C36: when no compatibility rule is stored for the pair (T, T), two
\* overlapping sessions of the same class type T of one instructor never produce
\* a conflict; when no rule is stored in either direction for two different
\* types, their overlap always produces a conflict.
C36_NoRule(a, b) ==
  ~\E rule \in compatibility : rule.class_type_a = a /\ rule.class_type_b = b

C36_Overlapping(payload, r, excludeClassId) ==
  /\ r.id # excludeClassId
  /\ r.instructor_id = payload.instructorId
  /\ r.schedule_mode = "recurring"
  /\ r.weekday = payload.weekday
  /\ r.active_from <= payload.activeFrom
  /\ (r.active_to = NoDate \/ payload.activeFrom <= r.active_to)
  /\ r.start_time[1] * 60 + r.start_time[2] < payload.endTime[1] * 60 + payload.endTime[2]
  /\ payload.startTime[1] * 60 + payload.startTime[2] < r.end_time[1] * 60 + r.end_time[2]

C36_Reported == {last.conflict.conflicts[i].classId : i \in 1..Len(last.conflict.conflicts)}

C36_DefaultsWithoutRule ==
  (last.op = "check" /\ last.outcome = "ok")
  => \A r \in classes :
       C36_Overlapping(last.payload, r, last.exclude)
       => /\ (/\ r.class_type_code = last.payload.classTypeCode
              /\ C36_NoRule(r.class_type_code, r.class_type_code))
               => r.id \notin C36_Reported
          /\ (/\ r.class_type_code # last.payload.classTypeCode
              /\ C36_NoRule(r.class_type_code, last.payload.classTypeCode)
              /\ C36_NoRule(last.payload.classTypeCode, r.class_type_code))
               => (r.id \in C36_Reported /\ last.conflict.hasConflict)

\* C36 witness: under the empty rule table a one-to-one candidate at 10:30 meets
\* a one-to-one class and a class of the other type of its instructor: the
\* first is not reported, the second is.
C36_Witness ==
  /\ compatibility = {}
  /\ last.op = "check"
  /\ last.payload.classTypeCode = "ONE_TO_ONE"
  /\ \E r1, r2 \in classes :
       /\ C36_Overlapping(last.payload, r1, last.exclude)
       /\ C36_Overlapping(last.payload, r2, last.exclude)
       /\ r1.class_type_code = "ONE_TO_ONE"
       /\ r2.class_type_code = "REGULAR_MULTI"
       /\ r1.id \notin C36_Reported
       /\ r2.id \in C36_Reported

\* C39: for every rule table in which rule(X, Y) and rule(Y, X) never carry
\* different isCompatible values, resolve is symmetric: resolve(X, Y) and
\* resolve(Y, X) agree on isCompatible for all types X and Y, whatever other
\* types the maps were loaded for.
C39_Consistent ==
  \A r1, r2 \in compatibility :
    (r1.class_type_a = r2.class_type_b /\ r1.class_type_b = r2.class_type_a)
    => r1.is_compatible = r2.is_compatible

C39_ResolveIsSymmetric ==
  (last.op = "resolve" /\ C39_Consistent)
  => \A existingTypes \in SUBSET RuleTypes :
       last.types[1] \in existingTypes
       => resolveCompatibility(loadCompatibilityMap(last.types[2], existingTypes),
                               last.types[2], last.types[1]).isCompatible
            = last.rule.isCompatible

\* C39 witness: the only stored rule is (REGULAR_MULTI, ONE_TO_ONE) =
\* incompatible, and resolve(ONE_TO_ONE, REGULAR_MULTI), which finds it as the
\* reversed pair, has answered incompatible.
C39_Witness ==
  /\ last.op = "resolve"
  /\ last.types = <<"ONE_TO_ONE", "REGULAR_MULTI">>
  /\ \E rule \in compatibility :
       /\ compatibility = {rule}
       /\ rule.class_type_a = "REGULAR_MULTI"
       /\ rule.class_type_b = "ONE_TO_ONE"
       /\ ~rule.is_compatible
  /\ ~last.rule.isCompatible

\* C37: when importRow finds no definition with the row's exact signature it
\* delegates to createWithEnrollment: it returns "created" with the new
\* definition's id when the definition and its enrollments were written, and
\* "conflict" with an empty classId and an unchanged store when the conflict
\* checker reported a conflict.
C37_HasSignature(r, payload) ==
  /\ r.schedule_mode = payload.scheduleMode
  /\ r.instructor_id = payload.instructorId
  /\ r.subject_code = payload.subjectCode
  /\ r.class_type_code = payload.classTypeCode
  /\ <<r.start_time[1], r.start_time[2]>> = payload.startTime
  /\ <<r.end_time[1], r.end_time[2]>> = payload.endTime
  /\ IF payload.scheduleMode = "recurring" THEN r.weekday = payload.weekday
     ELSE r.class_date = payload.classDate

C37_Created(payload, classId) ==
  /\ classId \notin {r.id : r \in classes}
  /\ \E r \in classes' :
       /\ r.id = classId
       /\ C37_HasSignature(r, payload)
       /\ classes' = classes \cup {r}
  /\ \A e \in enrollments' \ enrollments : e.class_id = classId
  /\ {e.student_id : e \in enrollments' \ enrollments} = Range(payload.studentIds)

C37_ImportDelegatesToCreate ==
  [][(/\ last'.op = "import"
      /\ last'.outcome = "ok"
      /\ ~\E r \in classes : C37_HasSignature(r, last'.payload))
     => /\ last'.status \in {"created", "conflict"}
        /\ last'.status = "conflict"
             <=> checkScheduleConflict([last'.payload EXCEPT !.studentIds = Dedup(@)],
                                       NoId).hasConflict
        /\ last'.status = "created"
             => (~last'.conflict.hasConflict /\ C37_Created(last'.payload, last'.classId))
        /\ last'.status = "conflict"
             => /\ last'.classId = NoId
                /\ last'.conflict
                     = checkScheduleConflict([last'.payload EXCEPT !.studentIds = Dedup(@)],
                                             NoId)
                /\ classes' = classes
                /\ enrollments' = enrollments
                /\ overrides' = overrides
                /\ statusLogs' = statusLogs]_vars

\* C37 witness: an import that found no class with its signature and returned
\* the conflict of the delegated create, with an empty classId.
C37_Witness ==
  /\ last.op = "import"
  /\ last.outcome = "ok"
  /\ last.status = "conflict"
  /\ last.classId = NoId
  /\ last.conflict.hasConflict
  /\ ~\E r \in classes : C37_HasSignature(r, last.payload)

\* C38: for every class, after any sequence of createWithEnrollment,
\* updateStatus and moveSlot calls served one at a time, the status recorded in
\* the class's most recent status log entry equals the class's stored status.
C38_LogsOf(classId) == SelectSeq(statusLogs, LAMBDA entry : entry.class_id = classId)

C38_LatestLogMatchesStatus ==
  \A r \in classes :
    C38_LogsOf(r.id) # <<>>
    => C38_LogsOf(r.id)[Len(C38_LogsOf(r.id))].status = r.progress_status

\* C40: in any run made only of importRow calls served one at a time from the
\* empty store, importRow inserts a definition only when no stored definition
\* has the same signature (mode, instructor, subject, class type, start, end,
\* weekday or date), so no two stored definitions ever share a signature.
C40_SameSignature(r1, r2) ==
  /\ r1.schedule_mode = r2.schedule_mode
  /\ r1.instructor_id = r2.instructor_id
  /\ r1.subject_code = r2.subject_code
  /\ r1.class_type_code = r2.class_type_code
  /\ r1.start_time = r2.start_time
  /\ r1.end_time = r2.end_time
  /\ IF r1.schedule_mode = "recurring" THEN r1.weekday = r2.weekday
     ELSE r1.class_date = r2.class_date

C40_ImportKeepsSignaturesUnique ==
  [][/\ \A r \in classes' :
          r.id \notin {x.id : x \in classes} => ~\E x \in classes : C40_SameSignature(x, r)
     /\ \A r1, r2 \in classes' : C40_SameSignature(r1, r2) => r1.id = r2.id]_vars

\* C40 witness: the store holds two definitions and the last row imported had
\* the signature of one of them: the student was enrolled in it (or was
\* already) and no definition was inserted.
C40_Witness ==
  /\ last.op = "import"
  /\ last.status \in {"enrolled", "existing"}
  /\ Cardinality(classes) = 2
  /\ \E r \in classes : r.id = last.classId
====
